---- MODULE Spec2Model ----
\* A model of the X11 event translator, the selection transfer, the EGL
\* configuration selector and the module loader hook of GLFW
\* (src/src/loader.c, src/src/egl_context.c).
EXTENDS Integers, Sequences, FiniteSets, TLC

VARIABLES
    \* ---- module loader (loader.c 9-44)
    moduleLoader,     \* _glfwModuleLoader: [open, close, resolve, user]
    loaderArg,        \* argument of the last operation when it was glfwInitModuleLoader
    loaderErr,        \* error reported by the last loader operation
    loaderRoute,      \* where the last open/close/resolve request was routed
    modOpenedBy,      \* the loader in force when the open module was opened
    loaderAccepted,   \* argument of the last glfwInitModuleLoader call that reported no error (history)
    \* ---- EGL configuration selection (egl_context.c 88-240)
    eglIn,            \* inputs of chooseEGLConfig: platform, request, native configurations
    eglOut,           \* outcome of the last chooseEGLConfig call ("none" before any)
    \* ---- drag and drop (loader.c 1584-1738)
    xdnd,             \* _glfw.x11.xdnd: [source, version, format]
    dndLastEnter,     \* the last XdndEnter message handled (history)
    dndOut,           \* what the last client-message handler sent and requested
    \* ---- window state and monitor acquisition (loader.c 1131-1189, 1839-1876, 2251-2257, 2516-2571)
    winMonitor,       \* window->monitor of each window (Null when windowed)
    x11Iconified,     \* window->x11.iconified
    x11Maximized,     \* window->x11.maximized
    mon,              \* [window: monitor->window of each monitor, count: _glfw.x11.saver.count,
                      \*  server: the server's screen saver setting, saved: _glfw.x11.saver.*,
                      \*  disables, restores: XSetScreenSaver calls made so far (history)]
    scen,             \* what each window did to monitors so far (history)
    acqAfterRel,      \* a first acquisition came after some window's release (history)
    winOps,           \* window operations performed so far
    winLive,          \* each window: not yet created, live or destroyed
    winWait,          \* the call that is blocked in waitForVisibilityNotify: its
                      \*  operation, its window and the monitor the window left
    winOut,           \* notifications of the last window operation
    \* ---- key events (loader.c 1193-1401)
    keyCfg,           \* [detectable: _glfw.x11.xkb.detectable, word: modulus of `Time` arithmetic,
                      \*  ic: whether window->x11.ic is set, per window]
    keyPressTimes,    \* window->x11.keyPressTimes[keycode] of each window
    xq,               \* events that have arrived on the display connection, oldest first
    keyOut,           \* the last event processed, whether more events were queued, and the
                      \* _glfwInputKey calls it made
    \* ---- selections (loader.c 463-500, 986-1127, 3110-3132, 3366-3403)
    selBuild,         \* [charSigned: whether plain char is signed in this build]
    selOwner,         \* the owner of each selection, as XGetSelectionOwner reports it
    selString,        \* [primary: _glfw.x11.primarySelectionString, clipboard: _glfw.x11.clipboardString]
    selLastSet,       \* the string last passed to the set operation of each selection (history)
    selOps,           \* selection operations called so far
    selGet,           \* the getSelectionString call in progress: position, target, buffer
    selX,             \* the helper window on the server: [prop: the GLFW_SELECTION property,
                      \*  notify: the SelectionNotify waiting, propNew: PropertyNewValue events waiting]
    selPeer,          \* the selection owner's side of a transfer: request, chunks left, and
                      \* the chunks sent to the call in progress (history)
    selOut,           \* outcome of the selection operation that returned last (none while
                      \* a call is in progress)
    \* ---- window and context life cycle (loader.c 651-675, 2094-2126, egl_context.c 242-851)
    lifePlatform,     \* _glfw.platform.platformID
    eglLib,           \* _glfw.egl: [handle: library loaded, display: display not EGL_NO_DISPLAY,
                      \*  allProc: KHR_get_all_proc_addresses, platform: _glfw.egl.platform
                      \*  is set]
    lifeWin,          \* each window structure: [state, handle: window->x11.handle, parent:
                      \*  x11.parent, colormap: x11.colormap set, had: the handle it was
                      \*  given (history), api:
                      \*  context.client, eglHandle, eglSurface, eglClient: context.egl.* set,
                      \*  vtable: context.makeCurrent ... context.destroy set]
    xContext,         \* the reverse lookup of _glfw.x11.context: handle -> window structure
    tlsCurrent,       \* _glfw.contextSlot of the calling thread
    lifeLive,         \* the window each native handle was created for, while that window is
                      \* not destroyed (history)
    lifeBound,        \* the argument of the last make-current whose native call
                      \* succeeded (history)
    lifeNative,       \* what exists outside the program: [ctx, surf: windows whose native
                      \* context, surface was created and not destroyed, lib: windows whose
                      \* client library is loaded, loaded: windows a client library
                      \* was ever loaded for (history)]
    lifeOut,          \* the last operation: its argument, result, error and EGL calls
    \* ---- waking the event thread (loader.c 127-181, 2829-2879)
    evPc,             \* where the event thread is: "idle", "waitCheck" (before XPending
                      \* in waitForAnyEvent), "poll" (about to call poll), "blocked"
                      \* (inside poll, nothing readable), "drain" (in drainEmptyEvents),
                      \* "process" (rest of _glfwPollEventsX11)
    evTimed,          \* the wait in progress has a timeout
    pipeBytes,        \* bytes in _glfw.x11.emptyEventPipe
    xSocket,          \* data is readable on the X11 connection
    xQueued,          \* events are in the Xlib queue
    postPending,      \* an empty event was posted after the last read of
                      \* drainEmptyEvents and before a wait started (history)
    evBlocked,        \* the wait in progress, or the last wait, blocked in poll (history)
    \* ---- answering selection requests (loader.c 836-984)
    selReq,           \* the SelectionRequest event in the Xlib queue, if any
    selReply,         \* the last request _glfwPollEvents handled: the request, the
                      \* properties written on the requestor and the events sent
    \* ---- cursor motion and recentring (loader.c 1500-1531, 2839-2859, 2898-2907)
    ptrCfg,           \* window->cursorMode, window->rawMouseMotion and whether the
                      \* window is _glfw.x11.disabledCursorWindow
    ptrWin,           \* window->x11.lastCursorPos, warpCursorPos and
                      \* window->virtualCursorPos
    ptrX,             \* the server: the pointer position in the window, the motion
                      \* events sent and not yet read, the user motions so far
    ptrOut,           \* the last _glfwPollEventsX11: the events it processed with
                      \* what each emitted, and the warps it issued
    \* ---- button, client-message and focus events; full screen windows
    \* ---- (loader.c 368-458, 1403-1473, 1584-1620, 1786-1831, 2361-2408, 2516-2571)
    inpCfg,           \* whether the window manager supports the EWMH full screen
                      \* state, and the window's autoIconify, cursorMode and x11.ic
    inpWin,           \* window->monitor, holds: monitor->window is this window,
                      \* window->x11.overrideRedirect, the window's state on the
                      \* server (hidden, visible, iconic), mapPending: a map request
                      \* the server has not acted on, wait: the call that is blocked
                      \* in waitForVisibilityNotify
    inpOut,           \* the last event or call: what it was given and the calls it
                      \* made, in order
    curMode,               \* window->cursorMode of each window
    curLive,               \* whether the window exists
    disabledCursorWindow,  \* _glfw.x11.disabledCursorWindow
    xFocus,                \* the window the X server gives the input focus to
    focusWire              \* focus events sent and not yet processed

loaderVars == <<moduleLoader, loaderArg, loaderErr, loaderRoute, loaderAccepted, modOpenedBy>>
eglVars == <<eglIn, eglOut>>

dndVars == <<xdnd, dndLastEnter, dndOut>>

winVars == <<winMonitor, x11Iconified, x11Maximized, mon, scen, acqAfterRel, winOps, winLive,
            winWait, winOut>>

keyVars == <<keyCfg, keyPressTimes, xq, keyOut>>

selVars == <<selBuild, selOwner, selString, selLastSet, selOps, selGet, selX, selPeer, selOut>>

lifeVars == <<lifePlatform, eglLib, lifeWin, xContext, tlsCurrent, lifeLive, lifeBound,
             lifeNative, lifeOut>>

wakeVars == <<evPc, evTimed, pipeBytes, xSocket, xQueued, postPending, evBlocked>>

reqVars == <<selReq, selReply>>

ptrVars == <<ptrCfg, ptrWin, ptrX, ptrOut>>

inpVars == <<inpCfg, inpWin, inpOut>>

curVars == <<curMode, curLive, disabledCursorWindow, xFocus, focusWire>>

vars == <<loaderVars, eglVars, dndVars, winVars, keyVars, selVars, lifeVars, wakeVars, reqVars, ptrVars, inpVars, curVars>>

\* what the operations of one part leave alone
notLoaderVars == <<eglVars, dndVars, winVars, keyVars, selVars, lifeVars, wakeVars, reqVars, ptrVars, inpVars, curVars>>
notEglVars == <<loaderVars, dndVars, winVars, keyVars, selVars, lifeVars, wakeVars, reqVars, ptrVars, inpVars, curVars>>
notDndVars == <<loaderVars, eglVars, winVars, keyVars, selVars, lifeVars, wakeVars, reqVars, ptrVars, inpVars, curVars>>
notWinVars == <<loaderVars, eglVars, dndVars, keyVars, selVars, lifeVars, wakeVars, reqVars, ptrVars, inpVars, curVars>>
notKeyVars == <<loaderVars, eglVars, dndVars, winVars, selVars, lifeVars, wakeVars, reqVars, ptrVars, inpVars, curVars>>
notSelVars == <<loaderVars, eglVars, dndVars, winVars, keyVars, lifeVars, wakeVars, reqVars, ptrVars, inpVars, curVars>>
notLifeVars == <<loaderVars, eglVars, dndVars, winVars, keyVars, selVars, wakeVars, reqVars, ptrVars, inpVars, curVars>>
notWakeVars == <<loaderVars, eglVars, dndVars, winVars, keyVars, selVars, lifeVars, reqVars, ptrVars, inpVars, curVars>>
notReqVars == <<loaderVars, eglVars, dndVars, winVars, keyVars, selVars, lifeVars, wakeVars, ptrVars, inpVars, curVars>>
notPtrVars == <<loaderVars, eglVars, dndVars, winVars, keyVars, selVars, lifeVars, wakeVars, reqVars, inpVars, curVars>>
notInpVars == <<loaderVars, eglVars, dndVars, winVars, keyVars, selVars, lifeVars, wakeVars, reqVars, ptrVars, curVars>>
notCurVars == <<loaderVars, eglVars, dndVars, winVars, keyVars, selVars, lifeVars, wakeVars, reqVars, ptrVars, inpVars>>

\* ---------------------------------------------------------------------
\* Error kinds reported to _glfwInputError
\* ---------------------------------------------------------------------
NoError == "NoError"
InvalidValue == "InvalidValue"
ApiUnavailable == "ApiUnavailable"
FormatUnavailable == "FormatUnavailable"
PlatformError == "PlatformError"
OutOfMemory == "OutOfMemory"
VersionUnavailable == "VersionUnavailable"

\* ---------------------------------------------------------------------
\* Module loader
\* ---------------------------------------------------------------------
Null == "NULL"
OpenFns == {Null, "openA", "openB"}
CloseFns == {Null, "closeA", "closeB"}
ResolveFns == {Null, "resolveA", "resolveB"}
UserPtrs == {Null, "userA"}

GLFWmoduleloader ==
    [open : OpenFns, close : CloseFns, resolve : ResolveFns, user : UserPtrs]

\* memset(&_glfwModuleLoader, 0, sizeof(GLFWmoduleloader))
ZeroLoader == [open |-> Null, close |-> Null, resolve |-> Null, user |-> Null]

\* the argument of glfwInitModuleLoader: a null pointer or a pointer to a loader
LoaderArgs ==
    {[ptr |-> "null", l |-> ZeroLoader]} \cup
    {[ptr |-> "valid", l |-> l] : l \in GLFWmoduleloader}

\* loaderArg when the last operation was not glfwInitModuleLoader
NoLoaderCall == [ptr |-> "none", l |-> ZeroLoader]

\* a completeness test that looks at the open callback alone
IsCompleteLoaderOpenOnly(l) == l.open # Null

\* loader->open && loader->close && loader->resolve
IsCompleteLoader(l) == l.open # Null /\ l.close # Null /\ l.resolve # Null

glfwInitModuleLoader(loader) ==
    /\ loaderArg' = loader
    /\ IF loader.ptr # "null"
       THEN IF IsCompleteLoader(loader.l)
            THEN moduleLoader' = loader.l /\ loaderErr' = NoError
            ELSE moduleLoader' = moduleLoader /\ loaderErr' = InvalidValue
       ELSE moduleLoader' = ZeroLoader /\ loaderErr' = NoError
    /\ loaderAccepted' = IF loaderErr' = NoError THEN loader ELSE loaderAccepted
    /\ UNCHANGED <<loaderRoute, modOpenedBy>>

\* modOpenedBy when no module is open, and when one was opened under loader l
NotOpen == [open |-> FALSE, by |-> ZeroLoader]
OpenedBy(l) == [open |-> TRUE, by |-> l]

NoRoute == [op |-> "none", via |-> "none", user |-> Null]

\* loader.c 23-28: _glfwModuleLoaderOpen
ModuleLoaderOpen ==
    /\ modOpenedBy = NotOpen
    /\ modOpenedBy' = OpenedBy(moduleLoader)
    /\ loaderRoute' = IF moduleLoader.open # Null
                      THEN [op |-> "open", via |-> moduleLoader.open,
                            user |-> moduleLoader.user]
                      ELSE [op |-> "open", via |-> "platform", user |-> Null]
    /\ loaderErr' = NoError
    /\ loaderArg' = NoLoaderCall
    /\ UNCHANGED <<moduleLoader, loaderAccepted>>

\* a close that always goes to _glfwPlatformFreeModule
ModuleLoaderCloseViaPlatform ==
    /\ modOpenedBy # NotOpen
    /\ modOpenedBy' = NotOpen
    /\ loaderRoute' = [op |-> "close", via |-> "platform", user |-> Null]
    /\ loaderErr' = NoError
    /\ loaderArg' = NoLoaderCall
    /\ UNCHANGED <<moduleLoader, loaderAccepted>>

\* loader.c 30-36: _glfwModuleLoaderClose
ModuleLoaderClose ==
    /\ modOpenedBy # NotOpen
    /\ modOpenedBy' = NotOpen
    /\ loaderRoute' = IF moduleLoader.close # Null
                      THEN [op |-> "close", via |-> moduleLoader.close,
                            user |-> moduleLoader.user]
                      ELSE [op |-> "close", via |-> "platform", user |-> Null]
    /\ loaderErr' = NoError
    /\ loaderArg' = NoLoaderCall
    /\ UNCHANGED <<moduleLoader, loaderAccepted>>

\* loader.c 38-43: _glfwModuleLoaderResolve
ModuleLoaderResolve ==
    /\ modOpenedBy # NotOpen
    /\ loaderRoute' = IF moduleLoader.resolve # Null
                      THEN [op |-> "resolve", via |-> moduleLoader.resolve,
                            user |-> moduleLoader.user]
                      ELSE [op |-> "resolve", via |-> "platform", user |-> Null]
    /\ loaderErr' = NoError
    /\ loaderArg' = NoLoaderCall
    /\ UNCHANGED <<moduleLoader, loaderAccepted, modOpenedBy>>

LoaderInit ==
    /\ moduleLoader = ZeroLoader
    /\ loaderArg = NoLoaderCall
    /\ loaderErr = NoError
    /\ loaderRoute = NoRoute
    /\ modOpenedBy = NotOpen
    /\ loaderAccepted = NoLoaderCall

InitModuleLoaderCall ==
    /\ \E l \in LoaderArgs : glfwInitModuleLoader(l)
    /\ UNCHANGED notLoaderVars

ModuleOpenCall == ModuleLoaderOpen /\ UNCHANGED notLoaderVars

ModuleCloseCall == ModuleLoaderClose /\ UNCHANGED notLoaderVars

ModuleResolveCall == ModuleLoaderResolve /\ UNCHANGED notLoaderVars

LoaderNext ==
    \/ InitModuleLoaderCall
    \/ ModuleOpenCall
    \/ ModuleCloseCall
    \/ ModuleResolveCall

\* ---------------------------------------------------------------------
\* EGL configuration selection
\* ---------------------------------------------------------------------
MaxConfigs == 3            \* longest driver-reported configuration list
DontCare == -1             \* GLFW_DONT_CARE
NoLimit == 1000000         \* stands for UINT_MAX in the closest-match search

Platforms == {"X11", "Wayland", "Null"}
ClientApis == {"OpenGL", "OpenGLES"}

\* X visuals known to the server: XGetVisualInfo finds the visual or not, and
\* _glfwIsVisualTransparentX11 tells whether its format has an alpha mask
VisualKnown(id) == id \in {33, 34}
VisualTransparent(id) == id = 34

\* driver-reported configurations the lists are drawn from
NativeConfig(cbt, surf, vid, rend, alpha, depth, samples) ==
    [cbt |-> cbt, surface |-> surf, visualid |-> vid, renderable |-> rend,
     red |-> 8, green |-> 8, blue |-> 8, alpha |-> alpha, depth |-> depth,
     stencil |-> 8, samples |-> samples]

ConfigCatalogue ==
    { NativeConfig("RGB", {"WINDOW", "PBUFFER"}, 33, {"GL", "ES2"}, 0, 24, 0),
      NativeConfig("RGB", {"WINDOW"}, 34, {"ES", "ES2"}, 8, 24, 4),
      NativeConfig("RGB", {"WINDOW", "PBUFFER"}, 35, {"GL"}, 8, 0, 0),
      NativeConfig("RGB", {"WINDOW", "PBUFFER"}, 0, {"GL", "ES", "ES2"}, 8, 24, 0),
      NativeConfig("LUMINANCE", {"WINDOW", "PBUFFER"}, 33, {"GL", "ES", "ES2"}, 0, 24, 0),
      NativeConfig("RGB", {"PBUFFER"}, 34, {"ES2"}, 0, 16, 0) }

RECURSIVE SeqsUpTo(_, _)
SeqsUpTo(S, n) ==
    IF n = 0 THEN {<<>>}
    ELSE LET shorter == SeqsUpTo(S, n - 1)
         IN shorter \cup {Append(q, x) : q \in {r \in shorter : Len(r) = n - 1}, x \in S}

\* requested framebuffer formats (_GLFWfbconfig as filled from the window hints)
FbRequests ==
    [stereo : BOOLEAN, transparent : BOOLEAN, doublebuffer : {TRUE},
     red : {8}, green : {8}, blue : {8}, alpha : {8}, depth : {24},
     stencil : {8}, samples : {0, 4}]

EglInputs ==
    [platform : Platforms, client : ClientApis, major : {1, 2},
     presentOpaque : BOOLEAN, fb : FbRequests,
     configs : SeqsUpTo(ConfigCatalogue, MaxConfigs)]

\* apiBit of chooseEGLConfig
ApiBit(client, major) ==
    IF client = "OpenGLES"
    THEN IF major = 1 THEN "ES" ELSE "ES2"
    ELSE "GL"

\* --- _glfwChooseFBConfig (context.c): the closest-match policy
Missing(d, c) ==
    (IF d.alpha > 0 /\ c.alpha = 0 THEN 1 ELSE 0) +
    (IF d.depth > 0 /\ c.depth = 0 THEN 1 ELSE 0) +
    (IF d.stencil > 0 /\ c.stencil = 0 THEN 1 ELSE 0) +
    (IF d.samples > 0 /\ c.samples = 0 THEN 1 ELSE 0) +
    (IF d.transparent # c.transparent THEN 1 ELSE 0)

SqDiff(want, have) == IF want = DontCare THEN 0 ELSE (want - have) * (want - have)

ColorDiff(d, c) == SqDiff(d.red, c.red) + SqDiff(d.green, c.green) + SqDiff(d.blue, c.blue)

ExtraDiff(d, c) ==
    SqDiff(d.alpha, c.alpha) + SqDiff(d.depth, c.depth) +
    SqDiff(d.stencil, c.stencil) + SqDiff(d.samples, c.samples)

RECURSIVE ChooseFrom(_, _, _, _)
ChooseFrom(d, alts, i, best) ==
    IF i > Len(alts) THEN best.closest
    ELSE LET c == alts[i]
             skip == (d.stereo /\ ~c.stereo) \/ d.doublebuffer # c.doublebuffer
             m == Missing(d, c)
             cd == ColorDiff(d, c)
             ed == ExtraDiff(d, c)
             better == \/ m < best.missing
                       \/ /\ m = best.missing
                          /\ \/ cd < best.color
                             \/ cd = best.color /\ ed < best.extra
         IN IF skip \/ ~better
            THEN ChooseFrom(d, alts, i + 1, best)
            ELSE ChooseFrom(d, alts, i + 1,
                            [closest |-> i, missing |-> m, color |-> cd, extra |-> ed])

\* index of the closest alternative, 0 for a null result
glfwChooseFBConfig(desired, alternatives) ==
    ChooseFrom(desired, alternatives, 1,
               [closest |-> 0, missing |-> NoLimit, color |-> NoLimit, extra |-> NoLimit])

\* a surface test that asks for a window on every platform
SurfaceBitWindowAlways(platform) == "WINDOW"

\* --- the filter loop of chooseEGLConfig, one native configuration per step
\* st: usable (the accepted candidates), slotTransparent (the transparent
\* field of the slot u points at), wrongApi, calls (native queries made)
SurfaceBit(platform) == IF platform = "Null" THEN "PBUFFER" ELSE "WINDOW"

FilterConfig(in, st, i) ==
    LET n == in.configs[i]
        apiBit == ApiBit(in.client, in.major)
        onX11 == in.platform = "X11"
        probe == onX11 /\ in.fb.transparent /\ VisualKnown(n.visualid)
        slotT == IF probe THEN VisualTransparent(n.visualid) ELSE st.slotTransparent
        u == [red |-> n.red, green |-> n.green, blue |-> n.blue, alpha |-> n.alpha,
              depth |-> n.depth, stencil |-> n.stencil, samples |-> n.samples,
              doublebuffer |-> in.fb.doublebuffer, stereo |-> FALSE,
              transparent |-> slotT, handle |-> i]
    IN IF n.cbt # "RGB"
       THEN [st EXCEPT !.calls = @ + 1]
       ELSE IF SurfaceBit(in.platform) \notin n.surface
       THEN [st EXCEPT !.calls = @ + 2]
       ELSE IF onX11 /\ n.visualid = 0
       THEN [st EXCEPT !.calls = @ + 3]
       ELSE IF apiBit \notin n.renderable
       THEN [st EXCEPT !.calls = @ + (IF onX11 THEN 4 ELSE 3),
                       !.slotTransparent = slotT, !.wrongApi = TRUE]
       ELSE IF /\ in.platform = "Wayland" /\ ~in.presentOpaque
               /\ ~in.fb.transparent /\ n.alpha > 0
       THEN [st EXCEPT !.calls = @ + 9]
       ELSE [st EXCEPT !.calls = @ + (IF onX11 THEN 11 ELSE 10),
                       !.usable = Append(@, u), !.slotTransparent = FALSE]

RECURSIVE FilterConfigs(_, _, _)
FilterConfigs(in, st, i) ==
    IF i > Len(in.configs) THEN st
    ELSE FilterConfigs(in, FilterConfig(in, st, i), i + 1)

\* the error reported when eglGetConfigs returns no configuration
NoConfigsError == ApiUnavailable

\* a stereo test that was left out
StereoNotRejected(in) == FALSE

\* if (fbconfig->stereo), tested before eglGetConfigs
StereoRejectedFirst(in) == in.fb.stereo

\* a wrong-API flag that is never raised
WrongApiNever(st) == FALSE

WrongApiAvailable(st) == st.wrongApi

chooseEGLConfig(in) ==
    IF StereoRejectedFirst(in)
    THEN [ok |-> FALSE, error |-> FormatUnavailable, result |-> 0, calls |-> 0,
          usable |-> 0, wrongApi |-> FALSE]
    ELSE IF Len(in.configs) = 0
    THEN [ok |-> FALSE, error |-> NoConfigsError, result |-> 0, calls |-> 1,
          usable |-> 0, wrongApi |-> FALSE]
    ELSE LET st == FilterConfigs(in, [usable |-> <<>>, slotTransparent |-> FALSE,
                                      wrongApi |-> FALSE, calls |-> 2], 1)
             closest == glfwChooseFBConfig(in.fb, st.usable)
         IN IF closest # 0
            THEN [ok |-> TRUE, error |-> NoError, result |-> st.usable[closest].handle,
                  calls |-> st.calls, usable |-> Len(st.usable), wrongApi |-> st.wrongApi]
            ELSE [ok |-> FALSE,
                  error |-> IF WrongApiAvailable(st) THEN ApiUnavailable ELSE FormatUnavailable,
                  result |-> 0, calls |-> st.calls, usable |-> Len(st.usable),
                  wrongApi |-> st.wrongApi]

EglNoCall == [ok |-> FALSE, error |-> "none", result |-> 0, calls |-> 0,
              usable |-> 0, wrongApi |-> FALSE]

EglInit ==
    /\ eglIn \in EglInputs
    /\ eglOut = EglNoCall

EglIdle ==
    /\ eglIn = [platform |-> "X11", client |-> "OpenGL", major |-> 1,
                presentOpaque |-> FALSE,
                fb |-> [stereo |-> FALSE, transparent |-> FALSE, doublebuffer |-> TRUE,
                        red |-> 8, green |-> 8, blue |-> 8, alpha |-> 8, depth |-> 24,
                        stencil |-> 8, samples |-> 0],
                configs |-> <<>>]
    /\ eglOut = EglNoCall

ChooseEGLConfigCall ==
    /\ eglOut = EglNoCall
    /\ eglOut' = chooseEGLConfig(eglIn)
    /\ UNCHANGED eglIn
    /\ UNCHANGED notEglVars

EglNext == ChooseEGLConfigCall

\* ---------------------------------------------------------------------
\* Windows and atoms
\* ---------------------------------------------------------------------
Windows == {"w1", "w2"}        \* native handles of the application's windows
NoneAtom == "None"             \* the X atom None (0)
TextUriList == "text/uri-list" \* _glfw.x11.text_uri_list
TextPlain == "text/plain"      \* a type this implementation does not take
XdndSelectionAtom == "XdndSelection"
XdndActionCopy == "XdndActionCopy"
CurrentTime == 0               \* X11 CurrentTime

Range(q) == {q[i] : i \in 1..Len(q)}

\* ---------------------------------------------------------------------
\* Drag and drop: the ClientMessage cases XdndEnter, XdndDrop, XdndPosition
\* ---------------------------------------------------------------------
GLFW_XDND_VERSION == 5

XdndSources == {"srcA", "srcB"}

\* the version byte a source puts in the top 8 bits of data.l[1]
VersionBytes == {0, 1, 2, 5, 6, 200}

\* the three types carried inline in data.l[2..4]
InlineTypes ==
    { <<TextUriList, TextPlain, NoneAtom>>,
      <<TextPlain, NoneAtom, NoneAtom>>,
      <<TextPlain, TextPlain, TextUriList>>,
      <<NoneAtom, NoneAtom, NoneAtom>> }

\* values of the source's XdndTypeList property (empty when it is missing)
TypeLists ==
    { <<>>,
      <<TextUriList>>,
      <<TextPlain, TextPlain, TextPlain, TextUriList>>,
      <<TextPlain, TextPlain, TextPlain, TextPlain>> }

DropTimes == {7}

\* the messages of sources with more than three types (the list flag set,
\* the first three types inline all the same) and of sources with up to
\* three, whose XdndTypeList property is missing or set all the same
EnterMessages ==
    [source : XdndSources, versionByte : VersionBytes, list : {TRUE},
     inline : {<<TextUriList, TextPlain, NoneAtom>>, <<TextPlain, TextPlain, TextPlain>>},
     typeList : TypeLists]
    \cup [source : XdndSources, versionByte : VersionBytes, list : {FALSE},
          inline : InlineTypes, typeList : {<<>>, <<TextUriList>>}]

\* data.l[1] >> 24: data.l[1] is a long holding the sign-extended 32-bit word
\* of the message, so a version byte of 128 or more gives a negative version
VersionOf(versionByte) ==
    IF versionByte >= 128 THEN versionByte - 256 ELSE versionByte

\* a scan that takes the first type offered, whatever it is
FindFirstType(formats) ==
    IF \E i \in 1..Len(formats) : formats[i] # NoneAtom
    THEN formats[CHOOSE i \in 1..Len(formats) :
                   formats[i] # NoneAtom /\ \A j \in 1..(i - 1) : formats[j] = NoneAtom]
    ELSE NoneAtom

\* the loop over formats[0..count-1] looking for text_uri_list
FindUriList(formats) ==
    IF \E i \in 1..Len(formats) : formats[i] = TextUriList
    THEN TextUriList ELSE NoneAtom

\* _glfw.x11.xdnd.version > _GLFW_XDND_VERSION
VersionTooNew(version) == version > GLFW_XDND_VERSION

NoDndOut ==
    [event |-> "none", window |-> "none", sent |-> "none", to |-> "none",
     accepted |-> 0, action |-> NoneAtom, convert |-> "none", time |-> CurrentTime,
     cursor |-> <<0, 0>>, replaced |-> NoneAtom, received |-> 0, drops |-> 0]

\* an XdndEnter that keeps the format of the session before when the new
\* source offers none
ProcessXdndEnterKeepsFormat(w, filtered, m) ==
    IF filtered
    THEN /\ dndOut' = [NoDndOut EXCEPT !.event = "filtered", !.window = w]
         /\ UNCHANGED <<xdnd, dndLastEnter>>
    ELSE LET version == VersionOf(m.versionByte)
             formats == IF m.list THEN m.typeList ELSE m.inline
         IN /\ xdnd' = [source |-> m.source,
                        version |-> version,
                        format |-> IF VersionTooNew(version) \/ FindUriList(formats) = NoneAtom
                                   THEN xdnd.format ELSE FindUriList(formats)]
            /\ dndLastEnter' = m
            /\ dndOut' = [NoDndOut EXCEPT !.event = "enter", !.window = w,
                                          !.replaced = xdnd.format]

\* case ClientMessage, message_type == XdndEnter
ProcessXdndEnter(w, filtered, m) ==
    IF filtered
    THEN /\ dndOut' = [NoDndOut EXCEPT !.event = "filtered", !.window = w]
         /\ UNCHANGED <<xdnd, dndLastEnter>>
    ELSE LET version == VersionOf(m.versionByte)
             formats == IF m.list THEN m.typeList ELSE m.inline
         IN /\ xdnd' = [source |-> m.source,
                        version |-> version,
                        format |-> IF VersionTooNew(version)
                                   THEN NoneAtom ELSE FindUriList(formats)]
            /\ dndLastEnter' = m
            /\ dndOut' = [NoDndOut EXCEPT !.event = "enter", !.window = w,
                                          !.replaced = xdnd.format]

\* case ClientMessage, message_type == XdndDrop
ProcessXdndDrop(w, filtered, time) ==
    /\ UNCHANGED <<xdnd, dndLastEnter>>
    /\ IF filtered
       THEN dndOut' = [NoDndOut EXCEPT !.event = "filtered", !.window = w]
       ELSE IF VersionTooNew(xdnd.version)
       THEN dndOut' = [NoDndOut EXCEPT !.event = "drop", !.window = w]
       ELSE IF xdnd.format # NoneAtom
       THEN dndOut' = [NoDndOut EXCEPT !.event = "drop", !.window = w,
                                       !.convert = xdnd.format,
                                       !.time = IF xdnd.version >= 1
                                                THEN time ELSE CurrentTime]
       ELSE IF xdnd.version >= 2
       THEN dndOut' = [NoDndOut EXCEPT !.event = "drop", !.window = w,
                                       !.sent = "XdndFinished", !.to = xdnd.source,
                                       !.accepted = 0, !.action = NoneAtom]
       ELSE dndOut' = [NoDndOut EXCEPT !.event = "drop", !.window = w]

\* root position of each window's origin (XTranslateCoordinates)
WindowOrigin(w) == IF w = "w1" THEN <<0, 0>> ELSE <<10, 20>>

RootPositions == {<<10, 20>>, <<15, 30>>}

\* case ClientMessage, message_type == XdndPosition
ProcessXdndPosition(w, filtered, pos) ==
    /\ UNCHANGED <<xdnd, dndLastEnter>>
    /\ IF filtered
       THEN dndOut' = [NoDndOut EXCEPT !.event = "filtered", !.window = w]
       ELSE IF VersionTooNew(xdnd.version)
       THEN dndOut' = [NoDndOut EXCEPT !.event = "position", !.window = w]
       ELSE dndOut' =
              [NoDndOut EXCEPT
                 !.event = "position", !.window = w,
                 !.cursor = <<pos[1] - WindowOrigin(w)[1], pos[2] - WindowOrigin(w)[2]>>,
                 !.sent = "XdndStatus", !.to = xdnd.source,
                 !.accepted = IF xdnd.format # NoneAtom THEN 1 ELSE 0,
                 !.action = IF xdnd.format # NoneAtom /\ xdnd.version >= 2
                            THEN XdndActionCopy ELSE NoneAtom]

\* the length of the property the source wrote for the drop; 0 when the
\* property is missing or empty
MaxDropLen == 2
DropLengths == 0..MaxDropLen

\* loader.c 1771-1772: data.l[1] of the XdndFinished sent after the data
FinishedWord(result) == result

\* case SelectionNotify, property == XdndSelection (loader.c 1740-1784)
ProcessXdndSelectionNotify(w, result) ==
    /\ UNCHANGED <<xdnd, dndLastEnter>>
    /\ LET out == [NoDndOut EXCEPT !.event = "selection", !.window = w,
                                   !.received = result,
                                   !.drops = IF result # 0 THEN 1 ELSE 0]
       IN dndOut' = IF xdnd.version >= 2
                    THEN [out EXCEPT !.sent = "XdndFinished", !.to = xdnd.source,
                                     !.accepted = FinishedWord(result),
                                     !.action = XdndActionCopy]
                    ELSE out

NoEnterYet ==
    [source |-> "none", versionByte |-> 0, list |-> FALSE,
     inline |-> <<NoneAtom, NoneAtom, NoneAtom>>, typeList |-> <<>>]

DndInit ==
    /\ xdnd = [source |-> "none", version |-> 0, format |-> NoneAtom]
    /\ dndLastEnter = NoEnterYet
    /\ dndOut = NoDndOut

DndIdle == DndInit

XdndEnterEvent ==
    /\ \E w \in Windows, f \in BOOLEAN, m \in EnterMessages : ProcessXdndEnter(w, f, m)
    /\ UNCHANGED notDndVars

XdndDropEvent ==
    /\ \E w \in Windows, f \in BOOLEAN, t \in DropTimes : ProcessXdndDrop(w, f, t)
    /\ UNCHANGED notDndVars

XdndPositionEvent ==
    /\ \E w \in Windows, f \in BOOLEAN, p \in RootPositions : ProcessXdndPosition(w, f, p)
    /\ UNCHANGED notDndVars

XdndSelectionNotifyEvent ==
    /\ \E w \in Windows, n \in DropLengths : ProcessXdndSelectionNotify(w, n)
    /\ UNCHANGED notDndVars

DndNext ==
    \/ XdndEnterEvent
    \/ XdndDropEvent
    \/ XdndPositionEvent
    \/ XdndSelectionNotifyEvent

\* ---------------------------------------------------------------------
\* Window state: monitor acquisition, the screen saver, WM_STATE and
\* _NET_WM_STATE property notifications
\* ---------------------------------------------------------------------
MaxWinOps == 5                 \* window operations in one run

Monitors == {"m1", "m2"}

\* ICCCM WM_STATE values as read by getWindowState; "Zoom" stands for any
\* value that is neither Withdrawn, Normal nor Iconic
WmStates == {"Withdrawn", "Normal", "Iconic", "Zoom"}

PropertyAtoms == {"WM_STATE", "_NET_WM_STATE", "_NET_FRAME_EXTENTS"}
PropertyStates == {"PropertyNewValue", "PropertyDelete"}

\* an acquisition that counts the window also when the monitor is occupied
AcquireCountsAlways(g, w, m) ==
    LET g1 == IF g.count = 0
              THEN [g EXCEPT !.saved = g.server, !.server = "off", !.disables = @ + 1]
              ELSE g
        g2 == [g1 EXCEPT !.count = @ + 1]
    IN [g2 EXCEPT !.window[m] = w]

\* acquireMonitor(window) with window->monitor = m
AcquireMonitor(g, w, m) ==
    LET g1 == IF g.count = 0
              THEN [g EXCEPT !.saved = g.server, !.server = "off", !.disables = @ + 1]
              ELSE g
        g2 == IF g1.window[m] = Null THEN [g1 EXCEPT !.count = @ + 1] ELSE g1
    IN [g2 EXCEPT !.window[m] = w]

\* a release that does not ask whether the window occupies the monitor
ReleaseMonitorUnchecked(g, w, m) ==
    LET g1 == [g EXCEPT !.window[m] = Null, !.count = @ - 1]
    IN IF g1.count = 0
       THEN [g1 EXCEPT !.server = g1.saved, !.restores = @ + 1]
       ELSE g1

\* releaseMonitor(window) with window->monitor = m
ReleaseMonitor(g, w, m) ==
    IF g.window[m] # w THEN g
    ELSE LET g1 == [g EXCEPT !.window[m] = Null, !.count = @ - 1]
         IN IF g1.count = 0
            THEN [g1 EXCEPT !.server = g1.saved, !.restores = @ + 1]
            ELSE g1

NoWinOut == [event |-> "none", window |-> "none", iconify |-> "none", maximize |-> "none",
             monitor |-> Null]

\* the scenario bookkeeping of one window: "new" (never held a monitor),
\* "holding" (acquired one monitor, once), "done" (released it), "other"
ScenAfterSetMonitor(sc, old, new) ==
    IF old = Null /\ new # Null /\ sc.st = "new" THEN [st |-> "holding", mon |-> new]
    ELSE IF old # Null /\ new = Null /\ sc.st = "holding" THEN [sc EXCEPT !.st = "done"]
    ELSE IF old = Null /\ new = Null THEN sc
    ELSE [sc EXCEPT !.st = "other"]

\* no call is blocked
NoWait == [op |-> "none", window |-> "none", old |-> Null]

\* the bookkeeping of a monitor change from old to new that has returned
AcqAfterRelAfter(old, new) ==
    acqAfterRel \/ (old = Null /\ new # Null /\ \E v \in Windows : scen[v].st = "done")

\* loader.c 2516-2571: _glfwSetWindowMonitorX11(window, monitor, ...);
\* viewable is what _glfwWindowVisibleX11 answers.  A window that moves to a
\* monitor while it is not viewable is mapped and the call blocks in
\* waitForVisibilityNotify (2554-2558) after the release of the old monitor
\* and the change of window->monitor, before acquireMonitor
SetWindowMonitor(w, m, viewable) ==
    /\ winWait = NoWait
    /\ winOps < MaxWinOps
    /\ winOps' = winOps + 1
    /\ UNCHANGED <<x11Iconified, x11Maximized>>
    /\ IF winMonitor[w] = m
       THEN /\ mon' = IF m # Null /\ mon.window[m] = w THEN AcquireMonitor(mon, w, m) ELSE mon
            /\ scen' = [scen EXCEPT ![w] = ScenAfterSetMonitor(@, m, m)]
            /\ winOut' = [NoWinOut EXCEPT !.event = "setMonitor", !.window = w]
            /\ UNCHANGED <<winMonitor, acqAfterRel, winWait>>
       ELSE LET g1 == IF winMonitor[w] # Null
                      THEN ReleaseMonitor(mon, w, winMonitor[w]) ELSE mon
            IN /\ winMonitor' = [winMonitor EXCEPT ![w] = m]
               /\ IF m # Null /\ ~viewable
                  THEN /\ mon' = g1
                       /\ winWait' = [op |-> "setMonitor", window |-> w,
                                      old |-> winMonitor[w]]
                       /\ winOut' = [NoWinOut EXCEPT !.event = "wait", !.window = w]
                       /\ UNCHANGED <<scen, acqAfterRel>>
                  ELSE /\ mon' = IF m # Null THEN AcquireMonitor(g1, w, m) ELSE g1
                       /\ scen' = [scen EXCEPT
                                      ![w] = ScenAfterSetMonitor(@, winMonitor[w], m)]
                       /\ acqAfterRel' = AcqAfterRelAfter(winMonitor[w], m)
                       /\ winOut' = [NoWinOut EXCEPT !.event = "setMonitor", !.window = w]
                       /\ UNCHANGED winWait

\* loader.c 186-202: waitForVisibilityNotify returns, with the event or after
\* the timeout (nobody reads its result), and the blocked call goes on:
\* updateWindowMode and acquireMonitor (2560-2561, 2073-2074) when the
\* window has a monitor, the return of the creation (2079-2086) when not
VisibilityWaitEnds ==
    /\ winWait # NoWait
    /\ LET w == winWait.window
           m == winMonitor[w]
       IN /\ mon' = IF m # Null THEN AcquireMonitor(mon, w, m) ELSE mon
          /\ IF winWait.op = "setMonitor"
             THEN /\ scen' = [scen EXCEPT ![w] = ScenAfterSetMonitor(@, winWait.old, m)]
                  /\ acqAfterRel' = AcqAfterRelAfter(winWait.old, m)
                  /\ winOut' = [NoWinOut EXCEPT !.event = "setMonitor", !.window = w]
             ELSE /\ scen' = [scen EXCEPT ![w] = [@ EXCEPT !.st = "other"]]
                  /\ winOut' = [NoWinOut EXCEPT !.event = "create", !.window = w,
                                                !.monitor = m]
                  /\ UNCHANGED acqAfterRel
    /\ winWait' = NoWait
    /\ UNCHANGED <<winMonitor, x11Iconified, x11Maximized, winOps, winLive>>

\* _glfwSetWindowSizeX11(window, width, height): the monitor branch
SetWindowSize(w) ==
    /\ winWait = NoWait
    /\ winOps < MaxWinOps
    /\ winOps' = winOps + 1
    /\ mon' = IF winMonitor[w] # Null /\ mon.window[winMonitor[w]] = w
              THEN AcquireMonitor(mon, w, winMonitor[w]) ELSE mon
    /\ scen' = [scen EXCEPT ![w] = IF winMonitor[w] # Null THEN [@ EXCEPT !.st = "other"] ELSE @]
    /\ winOut' = [NoWinOut EXCEPT !.event = "setSize", !.window = w]
    /\ UNCHANGED <<winMonitor, x11Iconified, x11Maximized, acqAfterRel, winWait>>

\* a WM_STATE handler that notifies on every Iconic or Normal reading
IconifiedChangedAlways(recorded, iconified) == TRUE

\* window->x11.iconified != iconified
IconifiedChanged(recorded, iconified) == recorded # iconified

\* case PropertyNotify; state is what getWindowState reads and maximized what
\* _glfwWindowMaximizedX11 reads when the event is processed
ProcessPropertyNotify(w, atom, pstate, state, maximized) ==
    /\ winWait = NoWait
    /\ winOps < MaxWinOps
    /\ winOps' = winOps + 1
    /\ UNCHANGED <<winMonitor, acqAfterRel, winWait>>
    /\ IF pstate # "PropertyNewValue"
       THEN /\ winOut' = [NoWinOut EXCEPT !.event = "property", !.window = w]
            /\ UNCHANGED <<x11Iconified, x11Maximized, mon, scen>>
       ELSE IF atom = "WM_STATE"
       THEN LET iconified == (state = "Iconic")
            IN IF state # "Iconic" /\ state # "Normal"
               THEN /\ winOut' = [NoWinOut EXCEPT !.event = "property", !.window = w]
                    /\ UNCHANGED <<x11Iconified, x11Maximized, mon, scen>>
               ELSE IF IconifiedChanged(x11Iconified[w], iconified)
               THEN /\ mon' = IF winMonitor[w] # Null
                              THEN IF iconified
                                   THEN ReleaseMonitor(mon, w, winMonitor[w])
                                   ELSE AcquireMonitor(mon, w, winMonitor[w])
                              ELSE mon
                    /\ scen' = [scen EXCEPT ![w] = IF winMonitor[w] # Null
                                                   THEN [@ EXCEPT !.st = "other"] ELSE @]
                    /\ x11Iconified' = [x11Iconified EXCEPT ![w] = iconified]
                    /\ winOut' = [NoWinOut EXCEPT !.event = "property", !.window = w,
                                     !.iconify = IF iconified THEN "iconified" ELSE "restored"]
                    /\ UNCHANGED x11Maximized
               ELSE /\ winOut' = [NoWinOut EXCEPT !.event = "property", !.window = w]
                    /\ UNCHANGED <<x11Iconified, x11Maximized, mon, scen>>
       ELSE IF atom = "_NET_WM_STATE"
       THEN IF x11Maximized[w] # maximized
            THEN /\ x11Maximized' = [x11Maximized EXCEPT ![w] = maximized]
                 /\ winOut' = [NoWinOut EXCEPT !.event = "property", !.window = w,
                                  !.maximize = IF maximized THEN "maximized" ELSE "restored"]
                 /\ UNCHANGED <<x11Iconified, mon, scen>>
            ELSE /\ winOut' = [NoWinOut EXCEPT !.event = "property", !.window = w]
                 /\ UNCHANGED <<x11Iconified, x11Maximized, mon, scen>>
       ELSE /\ winOut' = [NoWinOut EXCEPT !.event = "property", !.window = w]
            /\ UNCHANGED <<x11Iconified, x11Maximized, mon, scen>>

\* loader.c 2005-2090: _glfwCreateWindowX11 with window->monitor = m and
\* wndconfig's maximized and visible; the new window is not iconified and
\* not mapped.  createNativeWindow (682-699) records a window that is asked
\* to be maximized as maximized when it has no monitor and the window
\* manager has _NET_WM_STATE and both _NET_WM_STATE_MAXIMIZED atoms
\* (maxAtoms).  A window with a monitor is shown, and one with none when it
\* is asked to be visible (2070-2086); the show blocks in
\* waitForVisibilityNotify (2475-2482), and with a monitor the creation
\* acquires the monitor after the wait
CreateWindowOnMonitor(w, m, maximized, maxAtoms, visible) ==
    /\ winWait = NoWait
    /\ winOps < MaxWinOps
    /\ winOps' = winOps + 1
    /\ winLive[w] = "none"
    /\ winLive' = [winLive EXCEPT ![w] = "live"]
    /\ winMonitor' = [winMonitor EXCEPT ![w] = m]
    /\ x11Maximized' = IF m = Null /\ maximized /\ maxAtoms
                       THEN [x11Maximized EXCEPT ![w] = TRUE] ELSE x11Maximized
    /\ IF m # Null \/ visible
       THEN /\ winWait' = [op |-> "create", window |-> w, old |-> Null]
            /\ winOut' = [NoWinOut EXCEPT !.event = "wait", !.window = w]
            /\ UNCHANGED scen
       ELSE /\ scen' = [scen EXCEPT ![w] = [@ EXCEPT !.st = "other"]]
            /\ winOut' = [NoWinOut EXCEPT !.event = "create", !.window = w, !.monitor = m]
            /\ UNCHANGED winWait
    /\ UNCHANGED <<mon, x11Iconified, acqAfterRel>>

\* loader.c 2099-2100: _glfwDestroyWindowX11 releases the window's monitor
DestroyWindowOnMonitor(w) ==
    /\ winWait = NoWait
    /\ winOps < MaxWinOps
    /\ winOps' = winOps + 1
    /\ winLive[w] = "live"
    /\ winLive' = [winLive EXCEPT ![w] = "destroyed"]
    /\ mon' = IF winMonitor[w] # Null THEN ReleaseMonitor(mon, w, winMonitor[w]) ELSE mon
    /\ winMonitor' = [winMonitor EXCEPT ![w] = Null]
    /\ scen' = [scen EXCEPT ![w] = [@ EXCEPT !.st = "other"]]
    /\ winOut' = [NoWinOut EXCEPT !.event = "destroy", !.window = w,
                                  !.monitor = winMonitor[w]]
    /\ UNCHANGED <<x11Iconified, x11Maximized, acqAfterRel, winWait>>

\* the windows that exist at the start are windowed; the others are created
\* in the run
WinStart(live) ==
    /\ winMonitor = [w \in Windows |-> Null]
    /\ x11Iconified = [w \in Windows |-> FALSE]
    /\ x11Maximized = [w \in Windows |-> FALSE]
    /\ mon = [window |-> [m \in Monitors |-> Null], count |-> 0,
              server |-> "user", saved |-> "unset", disables |-> 0, restores |-> 0]
    /\ scen = [w \in Windows |-> [st |-> "new", mon |-> Null]]
    /\ acqAfterRel = FALSE
    /\ winOps = 0
    /\ winLive = live
    /\ winWait = NoWait
    /\ winOut = NoWinOut

WinInit == \E live \in [Windows -> {"none", "live"}] : WinStart(live)

WinIdle == WinStart([w \in Windows |-> "none"])

SetWindowMonitorCall ==
    /\ \E w \in Windows, m \in Monitors \cup {Null}, viewable \in BOOLEAN :
           winLive[w] = "live" /\ SetWindowMonitor(w, m, viewable)
    /\ UNCHANGED winLive
    /\ UNCHANGED notWinVars

SetWindowSizeCall ==
    /\ \E w \in Windows : winLive[w] = "live" /\ SetWindowSize(w)
    /\ UNCHANGED winLive
    /\ UNCHANGED notWinVars

PropertyNotifyEvent ==
    /\ \E w \in Windows, a \in PropertyAtoms, ps \in PropertyStates,
          st \in WmStates, mx \in BOOLEAN :
           winLive[w] = "live" /\ ProcessPropertyNotify(w, a, ps, st, mx)
    /\ UNCHANGED winLive
    /\ UNCHANGED notWinVars

CreateWindowCall ==
    /\ \E w \in Windows, m \in Monitors \cup {Null},
          maximized \in BOOLEAN, maxAtoms \in BOOLEAN, visible \in BOOLEAN :
           CreateWindowOnMonitor(w, m, maximized, maxAtoms, visible)
    /\ UNCHANGED notWinVars

DestroyWindowMonitorCall ==
    /\ \E w \in Windows : DestroyWindowOnMonitor(w)
    /\ UNCHANGED notWinVars

VisibilityWaitEndsStep ==
    /\ VisibilityWaitEnds
    /\ UNCHANGED notWinVars

WinNext ==
    \/ SetWindowMonitorCall
    \/ SetWindowSizeCall
    \/ PropertyNotifyEvent
    \/ CreateWindowCall
    \/ DestroyWindowMonitorCall
    \/ VisibilityWaitEndsStep

\* ---------------------------------------------------------------------
\* Key events: processEvent, KeyPress and KeyRelease (loader.c 1193-1401)
\* ---------------------------------------------------------------------
\* Server timestamps are 32-bit and `Time` is an unsigned long of 32 or 64
\* bits.  The model keeps the arithmetic and scales the widths: a timestamp
\* has TimeBits bits and an unsigned long has TimeBits or 2 * TimeBits bits.
TimeBits == 6
ServerTimeMod == 2 ^ TimeBits               \* timestamps wrap here (2^32 in X11)
HalfRange == 2 ^ (TimeBits - 1)             \* (Time) 1 << 31
TimeWords == {2 ^ TimeBits, 2 ^ (2 * TimeBits)}   \* ULONG_MAX + 1 of the build
RepeatEpsilon == 20                         \* ms, loader.c 1389
MaxKeyQueue == 2               \* events waiting on the connection at once

\* The events sent: presses and releases of one key of one window at the
\* times that decide the comparisons, and the events that can stand between
\* them (a press synthesized by an input method, a press on another window,
\* an event that is no key event).
Keycodes == {0, 8}             \* 0: the keycode of events synthesized by input methods
KeyTimes == {0, 1, RepeatEpsilon, HalfRange + 1, ServerTimeMod - 1}

XKeyEvents ==
    [type : {"KeyPress", "KeyRelease"}, window : {"w1"}, keycode : {8}, time : KeyTimes]
    \cup [type : {"KeyPress"}, window : {"w1"}, keycode : {0}, time : {1}]
    \cup [type : {"KeyPress"}, window : {"w2"}, keycode : {8}, time : {1}]
\* an event the key logic does not look at any further
XOtherEvents == [type : {"Expose"}, window : {"w1"}, keycode : {0}, time : {0}]
XEvents == XKeyEvents \cup XOtherEvents
NoEvent == [type |-> "none", window |-> "none", keycode |-> 0, time |-> 0]

\* a - b in the unsigned arithmetic of `Time`
TimeDiff(a, b, word) == (a - b + word) % word

\* loader.c 1304-1305, without the duplicate test: every press passes
AcceptPressAlways(time, recorded, word) == TRUE

\* loader.c 1304-1305: the press is newer than the recorded one, or none was recorded
AcceptPress(time, recorded, word) ==
    LET diff == TimeDiff(time, recorded, word)
    IN diff = time \/ (diff > 0 /\ diff < HalfRange)

\* loader.c 1290-1360: the _glfwInputKey calls of a KeyPress and the new
\* keyPressTimes of its window (the character input is not modelled)
ProcessKeyPress(cfg, times, ev) ==
    IF cfg.ic[ev.window]
    THEN IF AcceptPress(ev.time, times[ev.keycode], cfg.word)
         THEN [input |-> IF ev.keycode # 0 THEN <<"press">> ELSE <<>>,
               times |-> [times EXCEPT ![ev.keycode] = ev.time]]
         ELSE [input |-> <<>>, times |-> times]
    ELSE [input |-> <<"press">>, times |-> times]

\* loader.c 1375-1396, without the window test
IsKeyRepeatAnyWindow(cfg, ev, rest) ==
    /\ rest # <<>>
    /\ Head(rest).type = "KeyPress"
    /\ Head(rest).keycode = ev.keycode
    /\ TimeDiff(Head(rest).time, ev.time, cfg.word) < RepeatEpsilon

\* loader.c 1375-1396: XEventsQueued, XPeekEvent and the test of the next event
IsKeyRepeat(cfg, ev, rest) ==
    /\ rest # <<>>
    /\ Head(rest).type = "KeyPress"
    /\ Head(rest).window = ev.window
    /\ Head(rest).keycode = ev.keycode
    /\ TimeDiff(Head(rest).time, ev.time, cfg.word) < RepeatEpsilon

\* loader.c 1362-1401: the _glfwInputKey calls of a KeyRelease; rest is the
\* queue behind it
ProcessKeyRelease(cfg, ev, rest) ==
    IF ~cfg.detectable /\ IsKeyRepeat(cfg, ev, rest)
    THEN <<>>
    ELSE <<"release">>

NoKeyOut == [ev |-> NoEvent, queued |-> FALSE, input |-> <<>>]

KeyInit ==
    /\ keyCfg \in [detectable : BOOLEAN, word : TimeWords,
                   ic : {[w \in Windows |-> FALSE], [w \in Windows |-> w = "w1"]}]
    /\ keyPressTimes = [w \in Windows |-> [k \in Keycodes |-> 0]]
    /\ xq = <<>>
    /\ keyOut = NoKeyOut

KeyIdle ==
    /\ keyCfg = [detectable |-> TRUE, word |-> 2 ^ TimeBits, ic |-> [w \in Windows |-> FALSE]]
    /\ keyPressTimes = [w \in Windows |-> [k \in Keycodes |-> 0]]
    /\ xq = <<>>
    /\ keyOut = NoKeyOut

\* an event arrives on the connection
XServerSend ==
    /\ Len(xq) < MaxKeyQueue
    /\ \E ev \in XEvents : xq' = Append(xq, ev)
    /\ UNCHANGED <<keyCfg, keyPressTimes, keyOut>>
    /\ UNCHANGED notKeyVars

\* loader.c 1193-1401: processEvent takes the oldest event
ProcessKeyEvent ==
    /\ xq # <<>>
    /\ LET ev == Head(xq)
           rest == Tail(xq)
           press == ProcessKeyPress(keyCfg, keyPressTimes[ev.window], ev)
       IN /\ xq' = rest
          /\ keyPressTimes' = IF ev.type = "KeyPress"
                              THEN [keyPressTimes EXCEPT ![ev.window] = press.times]
                              ELSE keyPressTimes
          /\ keyOut' = [ev |-> ev, queued |-> rest # <<>>,
                        input |-> CASE ev.type = "KeyPress" -> press.input
                                    [] ev.type = "KeyRelease" ->
                                           ProcessKeyRelease(keyCfg, ev, rest)
                                    [] OTHER -> <<>>]
    /\ UNCHANGED keyCfg
    /\ UNCHANGED notKeyVars

KeyNext ==
    \/ XServerSend
    \/ ProcessKeyEvent

\* ---------------------------------------------------------------------
\* Selections: strings, buffers and conversions
\* (loader.c 463-500, 986-1127, 3110-3132, 3366-3403)
\* ---------------------------------------------------------------------
MaxSelOps == 3                 \* selection operations called in one run
MaxChunks == 2                 \* chunks of one INCR transfer

Selections == {"PRIMARY", "CLIPBOARD"}
\* a read that asks for the legacy format first
SelTargetsLegacyFirst == <<"STRING", "UTF8_STRING">>

SelTargets == <<"UTF8_STRING", "STRING">>       \* targets[], loader.c 989
Owners == {"none", "helper", "other"}           \* "helper": _glfw.x11.helperWindowHandle

\* Strings are sequences of bytes; a C string ends before its first zero byte.
SetStrings == {<<>>, <<65>>}                    \* strings the application sets
SelChunks == {<<65>>, <<233>>, <<65, 0>>}       \* non-empty property contents
Uninit == -1                                    \* a byte of memory never written

MinOf(S) == CHOOSE x \in S : \A y \in S : x <= y

\* the C string stored at the start of a byte array that ends with a zero byte
UpToNul(q) ==
    LET zeros == {i \in 1..Len(q) : q[i] = 0}
    IN IF zeros = {} THEN q ELSE SubSeq(q, 1, MinOf(zeros) - 1)

\* _glfwEncodeUTF8 (not in this file): the UTF-8 bytes of a code point below
\* 0x800; a negative char converted to uint32_t is above the last code point
\* and yields no bytes
EncodeUTF8(cp) ==
    IF cp < 0 THEN <<>>
    ELSE IF cp < 128 THEN <<cp>>
    ELSE <<192 + (cp \div 64), 128 + (cp % 64)>>

\* the value of the char holding byte b
CharValue(signed, b) == IF signed /\ b >= 128 THEN b - 256 ELSE b

\* loader.c 485-500: convertLatin1toUTF8 of a C string
RECURSIVE convertLatin1toUTF8(_, _)
convertLatin1toUTF8(signed, source) ==
    IF source = <<>> THEN <<>>
    ELSE EncodeUTF8(CharValue(signed, Head(source)))
             \o convertLatin1toUTF8(signed, Tail(source))

\* _glfw_realloc(string, size): the old bytes, then bytes never written
Realloc(buf, size) == buf \o [i \in 1..(size - Len(buf)) |-> Uninit]

\* strcat(string, data): data is copied, with its terminator, over the first
\* zero byte of string
Strcat(buf, data) ==
    LET at == MinOf({i \in 1..Len(buf) : buf[i] = 0})
        src == UpToNul(data) \o <<0>>
    IN [i \in 1..Len(buf) |->
           IF i >= at /\ i < at + Len(src) THEN src[i - at + 1] ELSE buf[i]]

\* loader.c 1081-1087, with the terminator stored at the end of the buffer
AppendChunkAtEnd(buf, size, data) ==
    LET itemCount == Len(data)
        newSize == size + itemCount
        grown == Realloc(buf, newSize)
    IN [size |-> newSize,
        buf |-> [i \in 1..newSize |->
                    IF i <= size - 1 THEN grown[i]
                    ELSE IF i <= newSize - 1 THEN data[i - size + 1]
                    ELSE 0]]

\* loader.c 1081-1087: one non-empty chunk is appended to the string
AppendChunk(buf, size, data) ==
    LET itemCount == Len(data)
        newSize == size + itemCount
        grown == Realloc(buf, newSize)
        ended == [grown EXCEPT ![newSize - itemCount] = 0]
    IN [size |-> newSize, buf |-> Strcat(ended, data)]

\* loader.c 992-995: the cached string of the selection
SelectionStringOf(selection, strs) ==
    IF selection = "PRIMARY" THEN strs.primary ELSE strs.clipboard

\* *selectionString = value
WithSelectionString(selection, strs, value) ==
    IF selection = "PRIMARY" THEN [strs EXCEPT !.primary = value]
    ELSE [strs EXCEPT !.clipboard = value]

\* a char* value: NULL, or a pointer to a C string
NullStr == [null |-> TRUE, s |-> <<>>]
Str(q) == [null |-> FALSE, s |-> q]

AbsentProp == [type |-> "absent", data |-> <<>>]
NoGet == [pc |-> "idle", selection |-> "none", owner |-> "none", i |-> 0, hasString |-> FALSE, buf |-> <<>>,
          size |-> 0, converts |-> 0, waited |-> FALSE, blocked |-> FALSE, latin1 |-> 0,
          asked |-> <<>>, replies |-> <<>>]
NoPeer == [request |-> "none", mode |-> "idle", left |-> 0, sent |-> <<>>]
NoSelOut == [op |-> "none", selection |-> "none", owner |-> "none", path |-> "none",
             target |-> "none",
             result |-> NullStr, converts |-> 0, waited |-> FALSE, latin1 |-> 0,
             error |-> NoError, chunks |-> <<>>, asked |-> <<>>, replies |-> <<>>,
             errors |-> 0]

\* XConvertSelection (loader.c 1017-1022): the server refuses at once when the
\* selection has no owner, and passes the request to the owner otherwise
ConvertSelection(owner, target, x, peer) ==
    IF owner = "none"
    THEN [x |-> [x EXCEPT !.notify = "None"], peer |-> peer]
    ELSE [x |-> x, peer |-> [peer EXCEPT !.request = target]]

\* loader.c 1120-1126: getSelectionString returns
GetReturns(g, strs, path, chunks) ==
    LET value == SelectionStringOf(g.selection, strs)
    IN /\ selGet' = NoGet
       /\ selOut' = [op |-> "get", selection |-> g.selection, owner |-> g.owner,
                     path |-> path,
                     target |-> IF g.i = 0 THEN "none" ELSE SelTargets[g.i],
                     result |-> value, converts |-> g.converts, waited |-> g.waited,
                     latin1 |-> g.latin1,
                     error |-> IF value.null THEN FormatUnavailable ELSE NoError,
                     chunks |-> chunks, asked |-> g.asked, replies |-> g.replies,
                     errors |-> IF value.null THEN 1 ELSE 0]

\* loader.c 1008-1022, 1115-1118: the loop goes on to the next target, or ends
\* when there is none left or a string was stored
NextTarget(g, strs, x, peer, path) ==
    IF g.i < Len(SelTargets) /\ SelectionStringOf(g.selection, strs).null
    THEN LET sent == ConvertSelection(selOwner[g.selection], SelTargets[g.i + 1], x, peer)
         IN /\ selGet' = [g EXCEPT !.pc = "waitNotify", !.i = g.i + 1,
                                   !.converts = g.converts + 1, !.blocked = FALSE,
                                   !.asked = Append(g.asked, SelTargets[g.i + 1])]
            /\ selX' = sent.x
            /\ selPeer' = sent.peer
            /\ selOut' = NoSelOut
    ELSE /\ GetReturns(g, strs, path, peer.sent)
         /\ selX' = x
         /\ selPeer' = [peer EXCEPT !.sent = <<>>]

SelInit ==
    /\ selBuild \in [charSigned : BOOLEAN]
    /\ selOwner \in [Selections -> {"none", "other"}]
    /\ selString = [primary |-> NullStr, clipboard |-> NullStr]
    /\ selLastSet = [primary |-> NullStr, clipboard |-> NullStr]
    /\ selOps = 0
    /\ selGet = NoGet
    /\ selX = [prop |-> AbsentProp, notify |-> "none", propNew |-> 0]
    /\ selPeer = NoPeer
    /\ selOut = NoSelOut

SelIdle ==
    /\ selBuild = [charSigned |-> FALSE]
    /\ selOwner = [sel \in Selections |-> "none"]
    /\ selString = [primary |-> NullStr, clipboard |-> NullStr]
    /\ selLastSet = [primary |-> NullStr, clipboard |-> NullStr]
    /\ selOps = 0
    /\ selGet = NoGet
    /\ selX = [prop |-> AbsentProp, notify |-> "none", propNew |-> 0]
    /\ selPeer = NoPeer
    /\ selOut = NoSelOut

\* loader.c 3376-3377 against 3112-3113: glfwSetX11SelectionString frees the
\* cached string before it copies its argument, _glfwSetClipboardStringX11
\* copies first
FreesBeforeCopy(selection) == selection = "PRIMARY"

\* what _glfw_strdup can read from a block that was freed: its bytes are
\* indeterminate, so the copy is the old string, an empty string or other
\* bytes
FreedReads(q) == {q, <<>>, <<Uninit>>}

\* what the copy of the argument can hold; alias: the argument is the cached
\* string of this selection itself, the pointer a read of the selection
\* returned
CopiesOf(selection, string, alias) ==
    IF alias /\ FreesBeforeCopy(selection) THEN FreedReads(string) ELSE {string}

\* loader.c 3110-3127, 3366-3390: _glfwSetClipboardStringX11 and
\* glfwSetX11SelectionString; copy is what _glfw_strdup produced, took is
\* FALSE when another client takes the selection before XGetSelectionOwner
\* is answered
SetSelectionString(selection, string, copy, took) ==
    /\ selString' = WithSelectionString(selection, selString, Str(copy))
    /\ selLastSet' = WithSelectionString(selection, selLastSet, Str(string))
    /\ selOwner' = [selOwner EXCEPT ![selection] = IF took THEN "helper" ELSE "other"]
    /\ selOut' = [NoSelOut EXCEPT !.op = "set", !.selection = selection,
                                  !.error = IF took THEN NoError ELSE PlatformError]

\* the strings the application passes: in memory of its own, or the cached
\* string of the selection itself when that holds one of them
SetArguments(selection) ==
    LET cached == SelectionStringOf(selection, selString)
    IN {[string |-> q, alias |-> FALSE] : q \in SetStrings}
       \cup (IF ~cached.null /\ cached.s \in SetStrings
             THEN {[string |-> cached.s, alias |-> TRUE]} ELSE {})

SetSelectionStringCall ==
    /\ selGet.pc = "idle"
    /\ selOps < MaxSelOps
    /\ selOps' = selOps + 1
    /\ \E selection \in Selections, took \in BOOLEAN :
           \E arg \in SetArguments(selection) :
               \E copy \in CopiesOf(selection, arg.string, arg.alias) :
                   SetSelectionString(selection, arg.string, copy, took)
    /\ UNCHANGED <<selBuild, selGet, selX, selPeer>>
    /\ UNCHANGED notSelVars

\* another client becomes the owner of a selection
OtherTakesSelection ==
    /\ selGet.pc = "idle"
    /\ selOps < MaxSelOps
    /\ selOps' = selOps + 1
    /\ \E selection \in Selections :
           selOwner' = [selOwner EXCEPT ![selection] = "other"]
    /\ UNCHANGED <<selBuild, selString, selLastSet, selGet, selX, selPeer, selOut>>
    /\ UNCHANGED notSelVars

\* loader.c 986-1022: getSelectionString up to its first wait; the call
\* records the owner of the selection when it is made (history)
GetSelectionString(selection) ==
    LET g == [NoGet EXCEPT !.selection = selection, !.owner = selOwner[selection]]
    IN IF selOwner[selection] = "helper"
       THEN /\ GetReturns(g, selString, "owner", <<>>)
            /\ UNCHANGED <<selString, selX, selPeer>>
       ELSE /\ selString' = WithSelectionString(selection, selString, NullStr)
            /\ NextTarget(g, selString', selX, selPeer, "none")

GetSelectionStringCall ==
    /\ selGet.pc = "idle"
    /\ selOps < MaxSelOps
    /\ selOps' = selOps + 1
    /\ \E selection \in Selections : GetSelectionString(selection)
    /\ UNCHANGED <<selBuild, selOwner, selLastSet>>
    /\ UNCHANGED notSelVars

\* loader.c 1024-1030, 1057-1063: the awaited event has not arrived and
\* waitForX11Event is called
GetBlock ==
    /\ selGet.pc \in {"waitNotify", "waitIncr"}
    /\ ~selGet.blocked
    /\ IF selGet.pc = "waitNotify" THEN selX.notify = "none" ELSE selX.propNew = 0
    /\ selGet' = [selGet EXCEPT !.blocked = TRUE, !.waited = TRUE]
    /\ UNCHANGED <<selBuild, selOwner, selString, selLastSet, selOps, selX, selPeer, selOut>>
    /\ UNCHANGED notSelVars

\* loader.c 1107-1113: a reply that is not an INCR transfer
DirectValue(target, prop) ==
    IF target = "STRING"
    THEN Str(convertLatin1toUTF8(selBuild.charSigned, UpToNul(prop.data)))
    ELSE Str(UpToNul(prop.data))

\* loader.c 1024-1055, 1107-1118: the SelectionNotify is taken from the queue
GetOnSelectionNotify ==
    /\ selGet.pc = "waitNotify"
    /\ selX.notify # "none"
    /\ LET g == [selGet EXCEPT !.blocked = FALSE]
           target == SelTargets[g.i]
           prop == selX.prop
           \* XCheckIfEvent takes a waiting PropertyNewValue event, and
           \* XGetWindowProperty deletes the property
           read == [prop |-> AbsentProp, notify |-> "none",
                    propNew |-> IF selX.propNew > 0 THEN selX.propNew - 1 ELSE 0]
       IN IF selX.notify = "None"
          THEN /\ NextTarget([g EXCEPT !.replies = Append(@, "refused")], selString,
                             [selX EXCEPT !.notify = "none"], selPeer, "none")
               /\ UNCHANGED selString
          ELSE IF prop.type = "INCR"
          THEN /\ selGet' = [g EXCEPT !.pc = "waitIncr", !.size = 1, !.buf = <<>>,
                                      !.hasString = FALSE]
               /\ selX' = read
               /\ UNCHANGED <<selString, selPeer, selOut>>
          ELSE IF prop.type = target
          THEN /\ selString' = WithSelectionString(g.selection, selString,
                                                   DirectValue(target, prop))
               /\ NextTarget([g EXCEPT !.latin1 = IF target = "STRING" THEN g.latin1 + 1
                                                   ELSE g.latin1,
                                        !.replies = Append(@, "direct")],
                             selString', read, selPeer, "direct")
          ELSE /\ NextTarget([g EXCEPT !.replies = Append(@, "mismatch")], selString,
                             read, selPeer, "none")
               /\ UNCHANGED selString
    /\ UNCHANGED <<selBuild, selOwner, selLastSet, selOps>>
    /\ UNCHANGED notSelVars

\* loader.c 1089-1101: the string stored when the INCR transfer ends
IncrValue(target, buf) ==
    IF target = "STRING"
    THEN Str(convertLatin1toUTF8(selBuild.charSigned, UpToNul(buf)))
    ELSE Str(UpToNul(buf))

\* loader.c 1057-1105: one round of the INCR loop
GetOnPropertyNewValue ==
    /\ selGet.pc = "waitIncr"
    /\ selX.propNew > 0
    /\ LET g == [selGet EXCEPT !.blocked = FALSE]
           target == SelTargets[g.i]
           data == selX.prop.data
           read == [selX EXCEPT !.prop = AbsentProp, !.propNew = selX.propNew - 1]
       IN IF Len(data) > 0
          THEN LET grown == AppendChunk(g.buf, g.size, data)
               IN /\ selGet' = [g EXCEPT !.buf = grown.buf, !.size = grown.size,
                                         !.hasString = TRUE]
                  /\ selX' = read
                  /\ UNCHANGED <<selString, selPeer, selOut>>
          ELSE IF g.hasString
          THEN /\ selString' = WithSelectionString(g.selection, selString,
                                                   IncrValue(target, g.buf))
               /\ NextTarget([g EXCEPT !.latin1 = IF target = "STRING" THEN g.latin1 + 1
                                                   ELSE g.latin1,
                                        !.replies = Append(@, "incr")],
                             selString', read, selPeer, "incr")
          ELSE /\ NextTarget([g EXCEPT !.replies = Append(@, "empty")], selString,
                             read, selPeer, "none")
               /\ UNCHANGED selString
    /\ UNCHANGED <<selBuild, selOwner, selLastSet, selOps>>
    /\ UNCHANGED notSelVars

\* the selection owner refuses the conversion
PeerRefuse ==
    /\ selPeer.request # "none"
    /\ selPeer' = [selPeer EXCEPT !.request = "none"]
    /\ selX' = [selX EXCEPT !.notify = "None"]
    /\ UNCHANGED <<selBuild, selOwner, selString, selLastSet, selOps, selGet, selOut>>
    /\ UNCHANGED notSelVars

\* the selection owner stores the whole value, of the requested type or
\* another, and notifies
PeerAnswerDirect ==
    /\ selPeer.request # "none"
    /\ \E type \in {selPeer.request, "TEXT"}, data \in SelChunks \cup {<<>>} :
           selX' = [prop |-> [type |-> type, data |-> data],
                    notify |-> "GLFW_SELECTION", propNew |-> selX.propNew + 1]
    /\ selPeer' = [selPeer EXCEPT !.request = "none"]
    /\ UNCHANGED <<selBuild, selOwner, selString, selLastSet, selOps, selGet, selOut>>
    /\ UNCHANGED notSelVars

\* the selection owner announces an INCR transfer
PeerStartIncr ==
    /\ selPeer.request # "none"
    /\ \E n \in 0..MaxChunks :
           selPeer' = [request |-> "none", mode |-> "incr", left |-> n, sent |-> <<>>]
    /\ selX' = [prop |-> [type |-> "INCR", data |-> <<>>],
                notify |-> "GLFW_SELECTION", propNew |-> selX.propNew + 1]
    /\ UNCHANGED <<selBuild, selOwner, selString, selLastSet, selOps, selGet, selOut>>
    /\ UNCHANGED notSelVars

\* the requestor has deleted the property: the owner stores the next chunk
PeerSendChunk ==
    /\ selPeer.mode = "incr"
    /\ selX.prop = AbsentProp
    /\ selPeer.left > 0
    /\ \E chunk \in SelChunks :
           /\ selX' = [selX EXCEPT !.prop = [type |-> "data", data |-> chunk],
                                   !.propNew = selX.propNew + 1]
           /\ selPeer' = [selPeer EXCEPT !.left = selPeer.left - 1,
                                         !.sent = Append(selPeer.sent, chunk)]
    /\ UNCHANGED <<selBuild, selOwner, selString, selLastSet, selOps, selGet, selOut>>
    /\ UNCHANGED notSelVars

\* the owner ends the transfer with an empty property
PeerEndIncr ==
    /\ selPeer.mode = "incr"
    /\ selX.prop = AbsentProp
    /\ selPeer.left = 0
    /\ selX' = [selX EXCEPT !.prop = [type |-> "data", data |-> <<>>],
                            !.propNew = selX.propNew + 1]
    /\ selPeer' = [selPeer EXCEPT !.mode = "idle"]
    /\ UNCHANGED <<selBuild, selOwner, selString, selLastSet, selOps, selGet, selOut>>
    /\ UNCHANGED notSelVars

SelNext ==
    \/ SetSelectionStringCall
    \/ OtherTakesSelection
    \/ GetSelectionStringCall
    \/ GetBlock
    \/ GetOnSelectionNotify
    \/ GetOnPropertyNewValue
    \/ PeerRefuse
    \/ PeerAnswerDirect
    \/ PeerStartIncr
    \/ PeerSendChunk
    \/ PeerEndIncr

\* ---------------------------------------------------------------------
\* Answering selection requests (loader.c 836-984)
\* ---------------------------------------------------------------------
ReqTargets == {"TARGETS", "MULTIPLE", "SAVE_TARGETS", "UTF8_STRING", "STRING", "TEXT"}

\* loader.c 842: const Atom formats[] = { UTF8_STRING, XA_STRING }
Formats == {"UTF8_STRING", "STRING"}

NoRequest == [selection |-> "none", target |-> "none", property |-> "None", time |-> 0,
              requestor |-> "none", pairs |-> <<>>]
NoReply == [op |-> "none", request |-> NoRequest, writes |-> <<>>, sent |-> <<>>, crashed |-> FALSE]

\* an XChangeProperty on the requestor's window
PropWrite(property, type, format, data) ==
    [property |-> property, type |-> type, format |-> format, data |-> data]

\* an ATOM_PAIR entry of a MULTIPLE request
AtomPair(target, property) == [target |-> target, property |-> property]

\* the requests other clients make: single conversions with and without a
\* destination property, and MULTIPLE requests with their pair lists
SinglePairs == {<<"TARGETS", "P">>, <<"TARGETS", "None">>, <<"SAVE_TARGETS", "P">>,
                <<"UTF8_STRING", "P">>, <<"UTF8_STRING", "None">>, <<"STRING", "P">>,
                <<"TEXT", "P">>}
PairLists == {<<>>, <<AtomPair("UTF8_STRING", "P1")>>,
              <<AtomPair("TEXT", "P1"), AtomPair("STRING", "P2")>>}
Requests ==
    {[selection |-> sel, target |-> tp[1], property |-> tp[2], time |-> 7,
      requestor |-> "clientA", pairs |-> <<>>] : sel \in Selections, tp \in SinglePairs}
    \cup {[selection |-> "CLIPBOARD", target |-> "MULTIPLE", property |-> "P", time |-> 7,
           requestor |-> "clientA", pairs |-> l] : l \in PairLists}
    \cup {[selection |-> "CLIPBOARD", target |-> "UTF8_STRING", property |-> "P",
           time |-> CurrentTime, requestor |-> "clientB", pairs |-> <<>>]}

\* strlen(selectionString): reading through a null pointer is undefined;
\* ub is what the build makes of it, -1 for a fault that ends the process
UbOutcomes == {-1, 0}
Strlen(str, ub) == IF str.null THEN ub ELSE Len(str.s)

WriteResult(property, writes, fault) ==
    [property |-> property, writes |-> writes, fault |-> fault]

\* loader.c 895-934: the conversions of a MULTIPLE request; a pair of an
\* unsupported target gets the property None
ConvertPairs(pairs) ==
    [i \in 1..Len(pairs) |->
        IF pairs[i].target \in Formats THEN pairs[i]
        ELSE [pairs[i] EXCEPT !.property = "None"]]

RECURSIVE PairWrites(_, _)
PairWrites(pairs, data) ==
    IF pairs = <<>> THEN <<>>
    ELSE (IF Head(pairs).target \in Formats
          THEN <<PropWrite(Head(pairs).property, Head(pairs).target, 8, data)>>
          ELSE <<>>) \o PairWrites(Tail(pairs), data)

\* loader.c 839-969: writeTargetToProperty
writeTargetToProperty(request, strs, ub) ==
    LET selectionString == SelectionStringOf(request.selection, strs)
        n == Strlen(selectionString, ub)
        data == IF selectionString.null THEN <<>> ELSE selectionString.s
    IN IF request.property = "None"
       THEN WriteResult("None", <<>>, FALSE)
       ELSE IF request.target = "TARGETS"
       THEN WriteResult(request.property,
                        <<PropWrite(request.property, "ATOM", 32,
                                    <<"TARGETS", "MULTIPLE", "UTF8_STRING", "STRING">>)>>,
                        FALSE)
       ELSE IF request.target = "MULTIPLE"
       THEN IF (\E i \in 1..Len(request.pairs) : request.pairs[i].target \in Formats) /\ n < 0
            THEN WriteResult("None", <<>>, TRUE)
            ELSE WriteResult(request.property,
                             PairWrites(request.pairs, data)
                                 \o <<PropWrite(request.property, "ATOM_PAIR", 32,
                                                ConvertPairs(request.pairs))>>,
                             FALSE)
       ELSE IF request.target = "SAVE_TARGETS"
       THEN WriteResult(request.property,
                        <<PropWrite(request.property, "NULL", 32, <<>>)>>, FALSE)
       ELSE IF request.target \in Formats
       THEN IF n < 0
            THEN WriteResult("None", <<>>, TRUE)
            ELSE WriteResult(request.property,
                             <<PropWrite(request.property, request.target, 8, data)>>,
                             FALSE)
       ELSE WriteResult("None", <<>>, FALSE)

\* loader.c 971-984: the SelectionNotify sent for a request
SelectionNotifyFor(request, property) ==
    [type |-> "SelectionNotify", to |-> request.requestor, requestor |-> request.requestor,
     selection |-> request.selection, target |-> request.target,
     property |-> property, time |-> request.time]

\* loader.c 971-984: handleSelectionRequest
handleSelectionRequest(request, strs, ub) ==
    LET w == writeTargetToProperty(request, strs, ub)
    IN [op |-> "request", request |-> request, writes |-> w.writes,
        sent |-> IF w.fault THEN <<>> ELSE <<SelectionNotifyFor(request, w.property)>>,
        crashed |-> w.fault]

\* the process runs until a fault ends it
Alive == ~selReply.crashed

ReqIdle ==
    /\ selReq = NoRequest
    /\ selReply = NoReply

\* a client asks for a selection: the server sends the request to the owner
SelectionRequestArrives ==
    /\ Alive
    /\ selReq = NoRequest
    /\ \E request \in Requests :
           /\ selOwner[request.selection] = "helper"
           /\ selReq' = request
    /\ UNCHANGED selReply
    /\ UNCHANGED notReqVars

\* loader.c 1259-1263: processEvent takes the SelectionRequest from the queue
HandleSelectionRequest ==
    /\ Alive
    /\ selReq # NoRequest
    /\ selGet.pc = "idle"
    /\ \E ub \in UbOutcomes :
           selReply' = handleSelectionRequest(selReq, selString, ub)
    /\ selReq' = NoRequest
    /\ UNCHANGED notReqVars

\* the selection operations of the application and of the other clients
ReqSetSelectionString == Alive /\ SetSelectionStringCall
ReqOtherTakesSelection == Alive /\ OtherTakesSelection
ReqGetSelectionString == Alive /\ GetSelectionStringCall
ReqGetBlock == Alive /\ GetBlock
ReqGetOnSelectionNotify == Alive /\ GetOnSelectionNotify
ReqPeerRefuse == Alive /\ PeerRefuse

ReqNext ==
    \/ SelectionRequestArrives
    \/ HandleSelectionRequest
    \/ ReqSetSelectionString
    \/ ReqOtherTakesSelection
    \/ ReqGetSelectionString
    \/ ReqGetBlock
    \/ ReqGetOnSelectionNotify
    \/ ReqPeerRefuse

\* ---------------------------------------------------------------------
\* Window and context life cycle
\* (loader.c 651-675, 2094-2126, egl_context.c 242-851)
\* ---------------------------------------------------------------------
MaxXid == 2                    \* native window handles the server hands out
XIDs == 1..MaxXid
LifePlatforms == {"X11", "Wayland"}

\* a window structure as allocated, before the platform creates the window
NewWindow == [state |-> "new", handle |-> 0, parent |-> "none", had |-> 0,
              colormap |-> FALSE, api |-> "none", eglHandle |-> FALSE,
              eglSurface |-> FALSE, eglClient |-> FALSE, vtable |-> FALSE]

NoLifeOut == [op |-> "none", window |-> "none", ok |-> TRUE, error |-> NoError,
              errors |-> <<>>, died |-> FALSE, handle |-> 0, notified |-> FALSE,
              calls |-> <<>>, swapped |-> FALSE, unloaded |-> FALSE, bound |-> FALSE,
              steps |-> <<>>, hadSurface |-> FALSE,
              after |-> [handle |-> 0, colormap |-> FALSE, ic |-> FALSE],
              visual |-> "none", angle |-> FALSE, configs |-> <<>>]

\* an EGL call: its display argument ("handle": _glfw.egl.display, "EGL_NO_DISPLAY":
\* the literal, "none": the entry point takes no display) and whether
\* _glfw.egl.display was set when the call was made
EglCall(fn, arg, have) == [fn |-> fn, arg |-> arg, have |-> have]
RECURSIVE Repeat(_, _)
Repeat(x, n) == IF n = 0 THEN <<>> ELSE <<x>> \o Repeat(x, n - 1)

\* handles of the windows that exist on the server
ServerWindows == {lifeWin[w].handle : w \in Windows} \ {0}

\* XSaveContext
SaveContext(table, handle, window) == [table EXCEPT ![handle] = window]

\* XDeleteContext
DeleteContext(table, handle) == [table EXCEPT ![handle] = "none"]

\* what XAllocWMHints (loader.c 742), XAllocSizeHints (759) and
\* XAllocClassHint (786) answer: "ok" all allocate, the others name the
\* one that returns NULL
HintAllocations == {"ok", "wmhints", "sizehints", "classhint"}

\* loader.c 786-808: the class hint is written without a test of the
\* pointer.  Through a NULL pointer the write is undefined: it faults and
\* ends the process, or it does not and createNativeWindow goes on
NullWriteOutcomes == {"fault", "goeson"}

\* loader.c 613-835: createNativeWindow; handle is what XCreateWindow
\* returns, saved whether XSaveContext stored the entry (672-675: its
\* result, XCNOMEM when it did not, is not read), alloc what the hint
\* allocations answer and ub what the write through a NULL class hint does.
\* The colormap is created (635) and x11.parent is set to the root (651)
\* before XCreateWindow is called, so both are set when it fails as well.
\* A failed allocation of the WM or size hints (742-748, 759-764) returns,
\* and a fault in the class hint (786-808) ends the process, after the
\* window was created and XSaveContext was called and before the input
\* context is made (827-828): state "partial"
CreateNativeWindow(w, handle, saved, alloc, ub) ==
    /\ lifePlatform = "X11"
    /\ lifeWin[w].state = "new"
    /\ IF handle = 0
       THEN /\ lifeWin' = [lifeWin EXCEPT ![w].state = "failed", ![w].parent = "root",
                                          ![w].colormap = TRUE]
            /\ lifeOut' = [NoLifeOut EXCEPT !.op = "createNativeWindow", !.window = w,
                                            !.ok = FALSE, !.error = PlatformError, !.errors = <<PlatformError>>]
            /\ UNCHANGED <<xContext, lifeLive>>
       ELSE LET faults == alloc = "classhint" /\ ub = "fault"
                returns == alloc \in {"wmhints", "sizehints"}
            IN /\ lifeWin' = [lifeWin EXCEPT ![w].state = IF faults \/ returns
                                                          THEN "partial" ELSE "native",
                                             ![w].handle = handle,
                                             ![w].parent = "root", ![w].had = handle,
                                             ![w].colormap = TRUE]
               /\ xContext' = IF saved THEN SaveContext(xContext, handle, w) ELSE xContext
               /\ lifeLive' = [lifeLive EXCEPT ![handle] = w]
               /\ lifeOut' = IF faults
                             THEN [NoLifeOut EXCEPT !.op = "createNativeWindow",
                                                    !.window = w, !.ok = FALSE,
                                                    !.died = TRUE]
                             ELSE IF returns
                             THEN [NoLifeOut EXCEPT !.op = "createNativeWindow",
                                                    !.window = w, !.ok = FALSE,
                                                    !.error = OutOfMemory,
                                                    !.errors = <<OutOfMemory>>]
                             ELSE [NoLifeOut EXCEPT !.op = "createNativeWindow",
                                                    !.window = w]
    /\ UNCHANGED <<lifePlatform, eglLib, tlsCurrent, lifeBound, lifeNative>>

\* a destruction that unloads the client library on every platform
UnloadsClientAlways(platform, api) == TRUE

\* egl_context.c 332-333: whether destroyContextEGL unloads the client library
UnloadsClient(platform, api) == platform # "X11" \/ api # "OpenGL"

\* egl_context.c 328-353: destroyContextEGL; gives the window structure, the
\* native objects and the calls made
destroyContextEGL(platform, egl, win, native, w) ==
    LET unload == UnloadsClient(platform, win.api) /\ win.eglClient
    IN [win |-> [win EXCEPT !.eglClient = IF unload THEN FALSE ELSE @,
                            !.eglSurface = FALSE, !.eglHandle = FALSE],
        native |-> [lib |-> IF unload THEN native.lib \ {w} ELSE native.lib,
                    surf |-> IF win.eglSurface /\ egl.display
                             THEN native.surf \ {w} ELSE native.surf,
                    ctx |-> IF win.eglHandle /\ egl.display
                            THEN native.ctx \ {w} ELSE native.ctx,
                    loaded |-> native.loaded],
        unloaded |-> unload,
        calls |-> (IF win.eglSurface
                   THEN <<EglCall("eglDestroySurface", "handle", egl.display)>> ELSE <<>>)
                  \o (IF win.eglHandle
                      THEN <<EglCall("eglDestroyContext", "handle", egl.display)>>
                      ELSE <<>>)]

\* loader.c 2099-2123: the calls of _glfwDestroyWindowX11 in the order it
\* makes them; monitor: window->monitor is set, ic: window->x11.ic is set,
\* eglCalls: what the context's destroy hook calls
DestroySteps(win, monitor, ic, eglCalls) ==
    (IF monitor THEN <<"releaseMonitor">> ELSE <<>>)
    \o (IF ic THEN <<"XDestroyIC">> ELSE <<>>)
    \o (IF win.vtable
        THEN <<"context.destroy">> \o [i \in DOMAIN eglCalls |-> eglCalls[i].fn]
        ELSE <<>>)
    \o (IF win.handle # 0
        THEN <<"XDeleteContext", "XUnmapWindow", "XDestroyWindow">>
        ELSE <<>>)
    \o (IF win.colormap THEN <<"XFreeColormap">> ELSE <<>>)

\* loader.c 2102-2121: the fields _glfwDestroyWindowX11 leaves
FieldsAfterDestroy(win, ic) ==
    [handle |-> IF win.handle # 0 THEN 0 ELSE win.handle,
     colormap |-> IF win.colormap THEN FALSE ELSE win.colormap,
     ic |-> IF ic THEN FALSE ELSE ic]

\* loader.c 2094-2126: _glfwDestroyWindowX11, the context and the native
\* window.  _glfwCreateWindowX11 leaves a window whose creation stopped
\* before createNativeWindow (loader.c 2012-2033) to the same destruction,
\* so a window in state "new" is destroyed as well: it has no handle, no
\* colormap and no input context; a window whose hints were not allocated
\* (state "partial") has a handle and a colormap and no input context
DestroyWindowX11(w, monitor, ic) ==
    /\ lifePlatform = "X11"
    /\ lifeWin[w].state \in {"new", "native", "context", "failed", "partial"}
    /\ ic => (lifeWin[w].handle # 0 /\ lifeWin[w].state # "partial")
    /\ LET win == lifeWin[w]
           d == IF win.vtable
                THEN destroyContextEGL(lifePlatform, eglLib, win, lifeNative, w)
                ELSE [win |-> win, native |-> lifeNative, unloaded |-> FALSE,
                      calls |-> <<>>]
       IN /\ lifeWin' = [lifeWin EXCEPT ![w] = [d.win EXCEPT !.state = "destroyed",
                                                              !.handle = 0,
                                                              !.parent = "none",
                                                              !.colormap = FALSE,
                                                              !.vtable = FALSE]]
          /\ xContext' = IF win.handle # 0 THEN DeleteContext(xContext, win.handle)
                         ELSE xContext
          /\ lifeNative' = d.native
          /\ lifeOut' = [NoLifeOut EXCEPT !.op = "destroyWindow", !.window = w,
                                          !.calls = d.calls, !.unloaded = d.unloaded,
                                          !.steps = DestroySteps(win, monitor, ic, d.calls),
                                          !.hadSurface = w \in lifeNative.surf,
                                          !.after = FieldsAfterDestroy(win, ic)]
    /\ lifeLive' = [h \in XIDs |-> IF lifeLive[h] = w THEN "none" ELSE lifeLive[h]]
    /\ UNCHANGED <<lifePlatform, eglLib, tlsCurrent, lifeBound>>

\* a termination that does not test the display first
terminateEGLUnguarded(egl) ==
    [egl |-> [egl EXCEPT !.display = FALSE, !.handle = FALSE],
     calls |-> <<EglCall("eglTerminate", "handle", egl.display)>>]

\* egl_context.c 547-560: _glfwTerminateEGL; gives _glfw.egl and the calls made
terminateEGL(egl) ==
    [egl |-> [egl EXCEPT !.display = FALSE, !.handle = FALSE],
     calls |-> IF egl.display THEN <<EglCall("eglTerminate", "handle", TRUE)>> ELSE <<>>]

InitOutcomes == {"nolib", "nosyms", "nodisplay", "noinit", "ok"}
ClientExtensions == {"none", "client", "platform"}

\* egl_context.c 464-505: the calls _glfwInitEGL makes before it has a display;
\* ext tells what the client-extension query answers
InitCallsBeforeDisplay(ext) ==
    <<EglCall("eglQueryString", "EGL_NO_DISPLAY", FALSE)>>
    \o (IF ext # "none" THEN <<EglCall("eglGetError", "none", FALSE)>> ELSE <<>>)
    \o (IF ext = "platform"
        THEN <<EglCall("eglGetProcAddress", "none", FALSE),
               EglCall("eglGetProcAddress", "none", FALSE),
               EglCall("eglGetPlatformDisplayEXT", "none", FALSE)>>
        ELSE <<EglCall("eglGetDisplay", "none", FALSE)>>)

\* egl_context.c 496, loader.c 3130-3167: _glfw.egl.platform after the
\* platform was asked; set when the client extensions name the X11 platform
\* (the ANGLE platforms are not among the extensions offered here)
PlatformChosen(ext) == ext = "platform"

\* egl_context.c 468-470: _glfwStringInExtensionString reads the string
\* eglQueryString returned.  Handed NULL it reads address 0, which is
\* undefined: the read faults and ends the process, or it finds no
\* extension name
NullStringOutcomes == {"fault", "nomatch"}

\* egl_context.c 362-543: _glfwInitEGL; ub is what the read of a NULL
\* extension string does when it happens.  _glfw.egl.EXT_client_extensions
\* (clientExt) is only ever set (466-467), so it stays set from an earlier
\* init; with it set and the query answering NULL (ext = "none") the
\* extension block (468-486) is entered with a NULL string
InitEGL(outcome, ext, allProc, ub) ==
    /\ IF eglLib.handle
       THEN /\ lifeOut' = [NoLifeOut EXCEPT !.op = "init"]
            /\ UNCHANGED eglLib
       ELSE IF outcome = "nolib"
       THEN /\ lifeOut' = [NoLifeOut EXCEPT !.op = "init", !.ok = FALSE,
                                            !.error = ApiUnavailable, !.errors = <<ApiUnavailable>>]
            /\ UNCHANGED eglLib
       ELSE IF outcome = "nosyms"
       THEN LET t == terminateEGL([eglLib EXCEPT !.handle = TRUE])
            IN /\ lifeOut' = [NoLifeOut EXCEPT !.op = "init", !.ok = FALSE,
                                               !.error = PlatformError, !.errors = <<PlatformError>>, !.calls = t.calls]
               /\ eglLib' = t.egl
       ELSE IF eglLib.clientExt /\ ext = "none" /\ ub = "fault"
       THEN /\ lifeOut' = [NoLifeOut EXCEPT
                              !.op = "init", !.ok = FALSE, !.died = TRUE,
                              !.calls = <<EglCall("eglQueryString", "EGL_NO_DISPLAY",
                                                  FALSE)>>]
            /\ eglLib' = [eglLib EXCEPT !.handle = TRUE]
       ELSE IF outcome = "nodisplay"
       THEN LET t == terminateEGL([eglLib EXCEPT !.handle = TRUE,
                                                 !.clientExt = @ \/ ext # "none",
                                                 !.platform = PlatformChosen(ext)])
            IN /\ lifeOut' = [NoLifeOut EXCEPT
                                 !.op = "init", !.ok = FALSE, !.error = ApiUnavailable, !.errors = <<ApiUnavailable>>,
                                 !.calls = InitCallsBeforeDisplay(ext)
                                           \o <<EglCall("eglGetError", "none", FALSE)>>
                                           \o t.calls]
               /\ eglLib' = t.egl
       ELSE IF outcome = "noinit"
       THEN LET t == terminateEGL([eglLib EXCEPT !.handle = TRUE, !.display = TRUE,
                                                 !.clientExt = @ \/ ext # "none",
                                                 !.platform = PlatformChosen(ext)])
            IN /\ lifeOut' = [NoLifeOut EXCEPT
                                 !.op = "init", !.ok = FALSE, !.error = ApiUnavailable, !.errors = <<ApiUnavailable>>,
                                 !.calls = InitCallsBeforeDisplay(ext)
                                           \o <<EglCall("eglInitialize", "handle", TRUE),
                                                EglCall("eglGetError", "none", TRUE)>>
                                           \o t.calls]
               /\ eglLib' = t.egl
       ELSE /\ lifeOut' = [NoLifeOut EXCEPT
                              !.op = "init",
                              !.calls = InitCallsBeforeDisplay(ext)
                                        \o <<EglCall("eglInitialize", "handle", TRUE)>>
                                        \o Repeat(EglCall("eglQueryString", "handle", TRUE),
                                                  6)]
            /\ eglLib' = [handle |-> TRUE, display |-> TRUE, allProc |-> allProc,
                          platform |-> PlatformChosen(ext),
                          clientExt |-> eglLib.clientExt \/ ext # "none"]
    /\ UNCHANGED <<lifePlatform, lifeWin, xContext, tlsCurrent, lifeLive, lifeBound,
                   lifeNative>>

\* egl_context.c 547-560: _glfwTerminateEGL, called when the library
\* terminates, after every window was destroyed
TerminateEGL ==
    /\ \A w \in Windows : lifeWin[w].state \in {"new", "destroyed"}
    /\ LET t == terminateEGL(eglLib)
       IN /\ eglLib' = t.egl
          /\ lifeOut' = [NoLifeOut EXCEPT !.op = "terminate", !.calls = t.calls]
    /\ UNCHANGED <<lifePlatform, lifeWin, xContext, tlsCurrent, lifeLive, lifeBound,
                   lifeNative>>

\* what a window asks of its context and what the driver offers
LifeConfig == NativeConfig("RGB", {"WINDOW", "PBUFFER"}, 33, {"GL", "ES2"}, 0, 24, 0)
LifeFb(stereo) == CHOOSE f \in FbRequests : f.stereo = stereo /\ ~f.transparent /\ f.samples = 0
LifeRequest(client, stereo, configs) ==
    [platform |-> lifePlatform, client |-> client, major |-> 2, presentOpaque |-> FALSE,
     fb |-> LifeFb(stereo), configs |-> configs]
LifeRequests ==
    {LifeRequest("OpenGL", FALSE, <<LifeConfig>>),
     LifeRequest("OpenGLES", FALSE, <<LifeConfig>>),
     LifeRequest("OpenGL", TRUE, <<LifeConfig>>),
     LifeRequest("OpenGL", FALSE, <<>>)}

\* egl_context.c 114-196: the EGL calls of chooseEGLConfig, n of them
ConfigCalls(n, have) ==
    Repeat(EglCall("eglGetConfigs", "handle", have), IF n < 2 THEN n ELSE 2)
    \o Repeat(EglCall("eglGetConfigAttrib", "handle", have), IF n < 2 THEN 0 ELSE n - 2)

\* a configuration of ANGLE's Vulkan backend: no X11 native visual id
AngleConfig == NativeConfig("RGB", {"WINDOW", "PBUFFER"}, 0, {"GL", "ES", "ES2"}, 8, 24, 0)

\* what _glfwChooseVisualEGL is asked: the requests of the windows against a
\* driver with visual ids, and a request against a driver without them, which
\* is ANGLE or is not
VisualInputs ==
    {[in |-> in, angle |-> FALSE, visualFound |-> v] :
         in \in {LifeRequest("OpenGL", FALSE, <<LifeConfig>>),
                 LifeRequest("OpenGL", FALSE, <<>>)}, v \in BOOLEAN}
    \cup {[in |-> LifeRequest("OpenGL", FALSE, <<AngleConfig>>), angle |-> a,
           visualFound |-> TRUE] : a \in BOOLEAN}

\* egl_context.c 857-905: _glfwChooseVisualEGL, which _glfwCreateWindowX11
\* (loader.c 2025-2028) calls after _glfwInitEGL returned true
ChooseVisualEGL(in, angle, visualFound) ==
    /\ lifePlatform = "X11"
    /\ eglLib.handle
    /\ LET r == chooseEGLConfig(in)
           out == [NoLifeOut EXCEPT !.op = "chooseVisual"]
           noVisualId == r.ok /\ in.configs[r.result].visualid = 0
           found == ConfigCalls(r.calls, eglLib.display)
                    \o <<EglCall("eglGetConfigAttrib", "handle", eglLib.display)>>
                    \o (IF noVisualId
                        THEN <<EglCall("eglQueryString", "handle", eglLib.display)>>
                        ELSE <<>>)
           asked == [out EXCEPT !.angle = angle, !.configs = in.configs]
       IN lifeOut' =
              IF ~r.ok
              THEN [asked EXCEPT !.ok = FALSE, !.error = r.error, !.errors = <<r.error>>,
                                 !.calls = ConfigCalls(r.calls, eglLib.display)]
              ELSE IF noVisualId /\ angle
              THEN [asked EXCEPT !.calls = found, !.visual = "default"]
              ELSE IF ~visualFound
              THEN [asked EXCEPT !.ok = FALSE, !.error = PlatformError,
                                 !.errors = <<PlatformError>>, !.calls = found]
              ELSE [asked EXCEPT !.calls = found, !.visual = "config"]
    /\ UNCHANGED <<lifePlatform, eglLib, lifeWin, xContext, tlsCurrent, lifeLive,
                   lifeBound, lifeNative>>

CreateFailures == {"none", "bind", "context", "surface", "client"}

\* egl_context.c 734-740: the entry point that creates the window surface
SurfaceCall(egl) ==
    IF egl.platform THEN "eglCreatePlatformWindowSurfaceEXT" ELSE "eglCreateWindowSurface"

\* egl_context.c 570-851: _glfwCreateContextEGL; fail is the native step that
\* fails.  It does not write window->context.client, which is what the
\* window structure had (RefreshContextAttribs records it afterwards)
CreateContextEGL(w, in, fail) ==
    /\ lifeWin[w].state = (IF lifePlatform = "X11" THEN "native" ELSE "new")
    /\ fail = "client" => ~eglLib.allProc
    /\ LET r == chooseEGLConfig(in)
           win == lifeWin[w]
           out == [NoLifeOut EXCEPT !.op = "createContext", !.window = w, !.ok = FALSE]
           c1 == ConfigCalls(r.calls, TRUE)
           c2 == c1 \o <<EglCall("eglBindAPI", "none", TRUE)>>
           c3 == c2 \o <<EglCall("eglCreateContext", "handle", TRUE)>>
           c4 == c3 \o <<EglCall(SurfaceCall(eglLib), "handle", TRUE)>>
           failed == [win EXCEPT !.state = "failed"]
       IN IF ~eglLib.display
          THEN /\ lifeOut' = [out EXCEPT !.error = ApiUnavailable, !.errors = <<ApiUnavailable>>]
               /\ lifeWin' = [lifeWin EXCEPT ![w] = failed]
               /\ UNCHANGED lifeNative
          ELSE IF ~r.ok
          THEN /\ lifeOut' = [out EXCEPT !.error = r.error,
                                          !.errors = <<r.error>>, !.calls = c1]
               /\ lifeWin' = [lifeWin EXCEPT ![w] = failed]
               /\ UNCHANGED lifeNative
          ELSE IF fail = "bind"
          THEN /\ lifeOut' = [out EXCEPT
                                 !.error = ApiUnavailable, !.errors = <<ApiUnavailable>>,
                                 !.calls = c2 \o <<EglCall("eglGetError", "none", TRUE)>>]
               /\ lifeWin' = [lifeWin EXCEPT ![w] = failed]
               /\ UNCHANGED lifeNative
          ELSE IF fail = "context"
          THEN /\ lifeOut' = [out EXCEPT
                                 !.error = VersionUnavailable, !.errors = <<VersionUnavailable>>,
                                 !.calls = c3 \o <<EglCall("eglGetError", "none", TRUE)>>]
               /\ lifeWin' = [lifeWin EXCEPT ![w] = failed]
               /\ UNCHANGED lifeNative
          ELSE IF fail = "surface"
          THEN /\ lifeOut' = [out EXCEPT
                                 !.error = PlatformError, !.errors = <<PlatformError>>,
                                 !.calls = c4 \o <<EglCall("eglGetError", "none", TRUE)>>]
               /\ lifeWin' = [lifeWin EXCEPT ![w] = [failed EXCEPT !.eglHandle = TRUE]]
               /\ lifeNative' = [lifeNative EXCEPT !.ctx = @ \cup {w}]
          ELSE IF fail = "client"
          THEN /\ lifeOut' = [out EXCEPT !.error = ApiUnavailable, !.errors = <<ApiUnavailable>>, !.calls = c4]
               /\ lifeWin' = [lifeWin EXCEPT ![w] = [failed EXCEPT !.eglHandle = TRUE,
                                                                   !.eglSurface = TRUE]]
               /\ lifeNative' = [lifeNative EXCEPT !.ctx = @ \cup {w},
                                                   !.surf = @ \cup {w}]
          ELSE /\ lifeOut' = [out EXCEPT !.ok = TRUE, !.calls = c4]
               /\ lifeWin' = [lifeWin EXCEPT
                                 ![w] = [win EXCEPT !.state = "context",
                                                    !.eglHandle = TRUE,
                                                    !.eglSurface = TRUE,
                                                    !.eglClient = ~eglLib.allProc,
                                                    !.vtable = TRUE]]
               /\ lifeNative' = [ctx |-> lifeNative.ctx \cup {w},
                                 surf |-> lifeNative.surf \cup {w},
                                 lib |-> IF eglLib.allProc THEN lifeNative.lib
                                         ELSE lifeNative.lib \cup {w},
                                 loaded |-> IF eglLib.allProc THEN lifeNative.loaded
                                            ELSE lifeNative.loaded \cup {w}]
    /\ UNCHANGED <<lifePlatform, eglLib, xContext, tlsCurrent, lifeLive, lifeBound>>

\* loader.c 2064-2065: _glfwCreateWindowX11 calls _glfwRefreshContextAttribs
\* once the context was created, and fails when it returns false.  The
\* function is not part of the sources at hand; it is what records
\* window->context.client, which destroyContextEGL reads (egl_context.c 333).
\* client is what it leaves in window->context.client ("none": it did not
\* write the field) and ok what it returns
RefreshContextAttribs(w, client, ok) ==
    /\ lifeWin[w].state = "context"
    /\ lifeWin[w].api = "none"
    /\ ok => client \in ClientApis
    /\ lifeWin' = [lifeWin EXCEPT ![w].api = client,
                                  ![w].state = IF ok THEN "context" ELSE "failed"]
    /\ lifeOut' = [NoLifeOut EXCEPT !.op = "refreshContext", !.window = w, !.ok = ok]
    /\ UNCHANGED <<lifePlatform, eglLib, xContext, tlsCurrent, lifeLive, lifeBound,
                   lifeNative>>

LifeEventTypes == {"ReparentNotify", "KeyPress"}

\* XFindContext
FindContext(table, handle) == table[handle]

\* an event loop that does not test the result of the lookup
DispatchesAlways(window) == TRUE

\* loader.c 1272-1280: processEvent goes on when the lookup found a window
Dispatches(window) == window # "none"

\* loader.c 1272-1290, 1833-1837: processEvent for an event addressed to a
\* native window: the window is looked up; ReparentNotify stores the new
\* parent, the other events notify the application
ProcessWindowEvent(handle, type) ==
    /\ lifePlatform = "X11"
    /\ LET window == FindContext(xContext, handle)
           out == [NoLifeOut EXCEPT !.op = "event", !.handle = handle,
                                    !.window = window]
       IN IF ~Dispatches(window)
          THEN /\ lifeOut' = out
               /\ UNCHANGED lifeWin
          ELSE IF type = "ReparentNotify"
          THEN /\ lifeOut' = out
               /\ lifeWin' = [lifeWin EXCEPT ![window].parent = "wm"]
          ELSE /\ lifeOut' = [out EXCEPT !.notified = TRUE]
               /\ UNCHANGED lifeWin
    /\ UNCHANGED <<lifePlatform, eglLib, xContext, tlsCurrent, lifeLive, lifeBound,
                   lifeNative>>

\* a make-current that records the window before the native call is known
\* to have succeeded
TlsAfterAlways(tls, window, nativeOk) == window

\* egl_context.c 263-271: the thread's current window after makeContextCurrentEGL
TlsAfter(tls, window, nativeOk) == IF nativeOk THEN window ELSE tls

\* egl_context.c 242-272: makeContextCurrentEGL, reached through the
\* context.makeCurrent of a window that has a context; window may be NULL
MakeContextCurrentEGL(window, nativeOk) ==
    /\ \E w \in Windows : lifeWin[w].vtable
    /\ window # Null => lifeWin[window].vtable
    /\ tlsCurrent' = TlsAfter(tlsCurrent, window, nativeOk)
    /\ lifeBound' = IF nativeOk THEN window ELSE lifeBound
    /\ lifeOut' = [NoLifeOut EXCEPT
                      !.op = "makeCurrent", !.window = window, !.ok = nativeOk,
                      !.bound = nativeOk,
                      !.error = IF nativeOk THEN NoError ELSE PlatformError,
                      !.errors = IF nativeOk THEN <<>> ELSE <<PlatformError>>,
                      !.calls = <<EglCall("eglMakeCurrent", "handle", eglLib.display)>>
                                \o (IF nativeOk THEN <<>>
                                    ELSE <<EglCall("eglGetError", "none",
                                                   eglLib.display)>>)]
    /\ UNCHANGED <<lifePlatform, eglLib, lifeWin, xContext, lifeLive, lifeNative>>

\* a swap that does not look at the thread's current window
SwapAllowedAlways(window, tls) == TRUE

\* egl_context.c 276: the test swapBuffersEGL makes first
SwapAllowed(window, tls) == window = tls

\* egl_context.c 274-293: swapBuffersEGL; visible is window->wl.visible
SwapBuffersEGL(window, visible) ==
    /\ lifeWin[window].vtable
    /\ lifeOut' =
           IF ~SwapAllowed(window, tlsCurrent)
           THEN [NoLifeOut EXCEPT !.op = "swapBuffers", !.window = window, !.ok = FALSE,
                                  !.error = PlatformError, !.errors = <<PlatformError>>]
           ELSE IF lifePlatform = "Wayland" /\ ~visible
           THEN [NoLifeOut EXCEPT !.op = "swapBuffers", !.window = window]
           ELSE [NoLifeOut EXCEPT
                    !.op = "swapBuffers", !.window = window, !.swapped = TRUE,
                    !.calls = <<EglCall("eglSwapBuffers", "handle", eglLib.display)>>]
    /\ UNCHANGED <<lifePlatform, eglLib, lifeWin, xContext, tlsCurrent, lifeLive,
                   lifeBound, lifeNative>>

\* egl_context.c 300-311: extensionSupportedEGL, reached through the
\* context.extensionSupported of a window that has a context
ExtensionSupportedEGL ==
    /\ \E w \in Windows : lifeWin[w].vtable
    /\ lifeOut' = [NoLifeOut EXCEPT
                      !.op = "extensionSupported",
                      !.calls = <<EglCall("eglQueryString", "handle", eglLib.display)>>]
    /\ UNCHANGED <<lifePlatform, eglLib, lifeWin, xContext, tlsCurrent, lifeLive,
                   lifeBound, lifeNative>>

\* egl_context.c 328-353: destroyContextEGL, reached through context.destroy
\* when a Wayland window is destroyed
DestroyContextEGL(w) ==
    /\ lifePlatform = "Wayland"
    /\ lifeWin[w].state \in {"context", "failed"}
    /\ LET win == lifeWin[w]
           d == IF win.vtable
                THEN destroyContextEGL(lifePlatform, eglLib, win, lifeNative, w)
                ELSE [win |-> win, native |-> lifeNative, unloaded |-> FALSE,
                      calls |-> <<>>]
       IN /\ lifeWin' = [lifeWin EXCEPT ![w] = [d.win EXCEPT !.state = "destroyed",
                                                              !.vtable = FALSE]]
          /\ lifeNative' = d.native
          /\ lifeOut' = [NoLifeOut EXCEPT !.op = "destroyContext", !.window = w,
                                          !.calls = d.calls, !.unloaded = d.unloaded]
    /\ UNCHANGED <<lifePlatform, eglLib, xContext, tlsCurrent, lifeLive, lifeBound>>

LifeInit ==
    /\ lifePlatform \in LifePlatforms
    /\ eglLib = [handle |-> FALSE, display |-> FALSE, allProc |-> FALSE,
                 platform |-> FALSE, clientExt |-> FALSE]
    /\ lifeWin = [w \in Windows |-> NewWindow]
    /\ xContext = [h \in XIDs |-> "none"]
    /\ tlsCurrent = Null
    /\ lifeLive = [h \in XIDs |-> "none"]
    /\ lifeBound = Null
    /\ lifeNative = [ctx |-> {}, surf |-> {}, lib |-> {}, loaded |-> {}]
    /\ lifeOut = NoLifeOut

LifeIdle ==
    /\ lifePlatform = "X11"
    /\ eglLib = [handle |-> FALSE, display |-> FALSE, allProc |-> FALSE,
                 platform |-> FALSE, clientExt |-> FALSE]
    /\ lifeWin = [w \in Windows |-> NewWindow]
    /\ xContext = [h \in XIDs |-> "none"]
    /\ tlsCurrent = Null
    /\ lifeLive = [h \in XIDs |-> "none"]
    /\ lifeBound = Null
    /\ lifeNative = [ctx |-> {}, surf |-> {}, lib |-> {}, loaded |-> {}]
    /\ lifeOut = NoLifeOut

\* the process runs: no call ended it
LifeRunning == ~lifeOut.died

CreateNativeWindowCall ==
    /\ LifeRunning
    /\ \E w \in Windows, handle \in {0} \cup (XIDs \ ServerWindows) :
           \E i \in IF handle = 0 THEN {[saved |-> TRUE, alloc |-> "ok"]}
                     ELSE [saved : BOOLEAN, alloc : HintAllocations] :
               \E ub \in IF i.alloc = "classhint" THEN NullWriteOutcomes
                          ELSE {"goeson"} :
                   CreateNativeWindow(w, handle, i.saved, i.alloc, ub)
    /\ UNCHANGED notLifeVars

\* a window on a monitor and one on none; a window that has a handle and is
\* on a monitor has an input context too (createNativeWindow makes it after
\* XCreateWindow, loader.c 827-828), one without a handle never has
\* the creation of a window that is to get a context: XCreateWindow fails or
\* the window is created whole (what the table then holds and what the hint
\* allocations do is followed under TableNext)
CreateWholeWindowCall ==
    /\ LifeRunning
    /\ \E w \in Windows, handle \in {0} \cup (XIDs \ ServerWindows) :
           CreateNativeWindow(w, handle, TRUE, "ok", "goeson")
    /\ UNCHANGED notLifeVars

DestroyInputs == {[monitor |-> TRUE, ic |-> TRUE], [monitor |-> FALSE, ic |-> FALSE]}

DestroyWindowCall ==
    /\ LifeRunning
    /\ \E w \in Windows, i \in DestroyInputs :
           DestroyWindowX11(w, i.monitor,
                            i.ic /\ lifeWin[w].handle # 0 /\ lifeWin[w].state # "partial")
    /\ UNCHANGED notLifeVars

\* the answers of the EGL library that make a difference to _glfwInitEGL:
\* three drivers, one without client extensions, one with client extensions
\* that do not name the platform, and one that names the platform and has
\* EGL_KHR_get_all_proc_addresses; the platform driver is the one that may
\* give no display, the client driver the one whose eglInitialize may fail
InitInputs ==
    IF eglLib.handle
    THEN {[outcome |-> "ok", ext |-> "none", allProc |-> FALSE]}
    ELSE [outcome : {"nolib", "nosyms"}, ext : {"none"}, allProc : {FALSE}]
         \cup {[outcome |-> "nodisplay", ext |-> "platform", allProc |-> FALSE],
               [outcome |-> "noinit", ext |-> "client", allProc |-> FALSE]}
         \cup {[outcome |-> "ok", ext |-> e, allProc |-> PlatformChosen(e)] :
                   e \in ClientExtensions}

InitEGLCall ==
    /\ LifeRunning
    /\ \E i \in InitInputs :
           \E ub \in IF eglLib.clientExt /\ i.ext = "none" THEN NullStringOutcomes
                      ELSE {"nomatch"} :
               InitEGL(i.outcome, i.ext, i.allProc, ub)
    /\ UNCHANGED notLifeVars

TerminateEGLCall ==
    /\ LifeRunning
    /\ TerminateEGL
    /\ UNCHANGED notLifeVars

ChooseVisualEGLCall ==
    /\ LifeRunning
    /\ \E i \in VisualInputs : ChooseVisualEGL(i.in, i.angle, i.visualFound)
    /\ UNCHANGED notLifeVars

\* what _glfwRefreshContextAttribs leaves and returns
RefreshInputs ==
    [client : ClientApis, ok : {TRUE}] \cup [client : ClientApis \cup {"none"}, ok : {FALSE}]

RefreshContextAttribsCall ==
    /\ LifeRunning
    /\ \E w \in Windows, i \in RefreshInputs : RefreshContextAttribs(w, i.client, i.ok)
    /\ UNCHANGED notLifeVars

CreateContextEGLCall ==
    /\ LifeRunning
    /\ \E w \in Windows, in \in LifeRequests, fail \in CreateFailures :
           CreateContextEGL(w, in, fail)
    /\ UNCHANGED notLifeVars

MakeContextCurrentCall ==
    /\ LifeRunning
    /\ \E window \in Windows \cup {Null}, nativeOk \in BOOLEAN :
           MakeContextCurrentEGL(window, nativeOk)
    /\ UNCHANGED notLifeVars

SwapBuffersCall ==
    /\ LifeRunning
    /\ \E window \in Windows, visible \in BOOLEAN : SwapBuffersEGL(window, visible)
    /\ UNCHANGED notLifeVars

ExtensionSupportedCall ==
    /\ LifeRunning
    /\ ExtensionSupportedEGL
    /\ UNCHANGED notLifeVars

DestroyContextCall ==
    /\ LifeRunning
    /\ \E w \in Windows : DestroyContextEGL(w)
    /\ UNCHANGED notLifeVars

WindowEvent ==
    /\ LifeRunning
    /\ \E handle \in XIDs, type \in LifeEventTypes : ProcessWindowEvent(handle, type)
    /\ UNCHANGED notLifeVars

LifeNext ==
    \/ CreateWholeWindowCall
    \/ DestroyWindowCall
    \/ InitEGLCall
    \/ TerminateEGLCall
    \/ ChooseVisualEGLCall
    \/ CreateContextEGLCall
    \/ RefreshContextAttribsCall
    \/ MakeContextCurrentCall
    \/ SwapBuffersCall
    \/ ExtensionSupportedCall
    \/ DestroyContextCall

\* the native windows, the reverse-lookup table and the events addressed to
\* windows; no step of these touches a context
TableNext ==
    \/ CreateNativeWindowCall
    \/ DestroyWindowCall
    \/ WindowEvent

\* ---------------------------------------------------------------------
\* Waking the event thread (loader.c 127-181, 2829-2879)
\* ---------------------------------------------------------------------
PipeCap == 2                   \* bytes the wake-up pipe holds
ReadSize == 64                 \* sizeof(dummy) in drainEmptyEvents
WaitPcs == {"waitCheck", "poll", "blocked"}

\* a poll that watches the X11 connection only
PollReadyXOnly(pipe, socket) == socket

\* loader.c 130-135, 144: what makes the poll of waitForAnyEvent return
PollReady(pipe, socket) == pipe > 0 \/ socket

\* loader.c 146-150: after poll returned, waitForAnyEvent returns when the
\* pipe is readable and tests XPending again otherwise
AfterPoll(pipe) == IF pipe > 0 THEN "drain" ELSE "waitCheck"

\* loader.c 2865-2875: _glfwWaitEventsX11, _glfwWaitEventsTimeoutX11 enter
\* waitForAnyEvent
WaitEventsStart(timed) ==
    /\ evPc = "idle"
    /\ evPc' = "waitCheck"
    /\ evTimed' = timed
    /\ evBlocked' = FALSE
    /\ UNCHANGED <<pipeBytes, xSocket, xQueued, postPending>>

\* loader.c 141: while (!XPending(display)); XPending reads the connection
WaitCheckPending ==
    /\ evPc = "waitCheck"
    /\ xQueued' = (xQueued \/ xSocket)
    /\ xSocket' = FALSE
    /\ evPc' = IF xQueued' THEN "drain" ELSE "poll"
    /\ UNCHANGED <<evTimed, pipeBytes, postPending, evBlocked>>

\* loader.c 143-150: the poll call returns at once or blocks
PollEnter ==
    /\ evPc = "poll"
    /\ IF PollReady(pipeBytes, xSocket)
       THEN evPc' = AfterPoll(pipeBytes) /\ UNCHANGED evBlocked
       ELSE evPc' = "blocked" /\ evBlocked' = TRUE
    /\ UNCHANGED <<evTimed, pipeBytes, xSocket, xQueued, postPending>>

\* loader.c 143-150: the blocked poll returns because a descriptor is readable
PollWake ==
    /\ evPc = "blocked"
    /\ PollReady(pipeBytes, xSocket)
    /\ evPc' = AfterPoll(pipeBytes)
    /\ UNCHANGED <<evTimed, pipeBytes, xSocket, xQueued, postPending, evBlocked>>

\* loader.c 143-144: the blocked poll times out and waitForAnyEvent returns
PollTimeout ==
    /\ evPc = "blocked"
    /\ evTimed
    /\ evPc' = "drain"
    /\ UNCHANGED <<evTimed, pipeBytes, xSocket, xQueued, postPending, evBlocked>>

\* loader.c 2829-2831: _glfwPollEventsX11 called without a wait
PollEventsStart ==
    /\ evPc = "idle"
    /\ evPc' = "drain"
    /\ UNCHANGED <<evTimed, pipeBytes, xSocket, xQueued, postPending, evBlocked>>

\* loader.c 171-181: one read of drainEmptyEvents; the loop ends when the
\* pipe is empty
DrainRead ==
    /\ evPc = "drain"
    /\ IF pipeBytes > 0
       THEN /\ pipeBytes' = IF pipeBytes > ReadSize THEN pipeBytes - ReadSize ELSE 0
            /\ UNCHANGED evPc
       ELSE /\ evPc' = "process"
            /\ UNCHANGED pipeBytes
    /\ postPending' = FALSE
    /\ UNCHANGED <<evTimed, xSocket, xQueued, evBlocked>>

\* loader.c 2837-2862: the rest of _glfwPollEventsX11 reads and processes
\* the events that arrived
ProcessPending ==
    /\ evPc = "process"
    /\ evPc' = "idle"
    /\ xSocket' = FALSE
    /\ xQueued' = FALSE
    /\ UNCHANGED <<evTimed, pipeBytes, postPending, evBlocked>>

\* loader.c 157-167, 2877-2880: _glfwPostEmptyEventX11 on another thread
\* writes one byte; the write fails when the pipe is full
PostEmptyEvent ==
    /\ pipeBytes' = IF pipeBytes < PipeCap THEN pipeBytes + 1 ELSE pipeBytes
    /\ postPending' = (postPending \/ evPc \in {"process", "idle"})
    /\ UNCHANGED <<evPc, evTimed, xSocket, xQueued, evBlocked>>

\* the X server sends an event
XServerData ==
    /\ ~xSocket
    /\ xSocket' = TRUE
    /\ UNCHANGED <<evPc, evTimed, pipeBytes, xQueued, postPending, evBlocked>>

WakeInit ==
    /\ evPc = "idle"
    /\ evTimed = FALSE
    /\ pipeBytes = 0
    /\ xSocket = FALSE
    /\ xQueued = FALSE
    /\ postPending = FALSE
    /\ evBlocked = FALSE

WakeIdle == WakeInit

WaitEventsCall ==
    /\ \E timed \in BOOLEAN : WaitEventsStart(timed)
    /\ UNCHANGED notWakeVars

WaitCheckStep ==
    /\ WaitCheckPending
    /\ UNCHANGED notWakeVars

PollEnterStep ==
    /\ PollEnter
    /\ UNCHANGED notWakeVars

PollWakeStep ==
    /\ PollWake
    /\ UNCHANGED notWakeVars

PollTimeoutStep ==
    /\ PollTimeout
    /\ UNCHANGED notWakeVars

PollEventsCall ==
    /\ PollEventsStart
    /\ UNCHANGED notWakeVars

DrainStep ==
    /\ DrainRead
    /\ UNCHANGED notWakeVars

ProcessStep ==
    /\ ProcessPending
    /\ UNCHANGED notWakeVars

PostEmptyEventCall ==
    /\ PostEmptyEvent
    /\ UNCHANGED notWakeVars

XServerDataStep ==
    /\ XServerData
    /\ UNCHANGED notWakeVars

WakeNext ==
    \/ WaitEventsCall
    \/ WaitCheckStep
    \/ PollEnterStep
    \/ PollWakeStep
    \/ PollTimeoutStep
    \/ PollEventsCall
    \/ DrainStep
    \/ ProcessStep
    \/ PostEmptyEventCall
    \/ XServerDataStep

\* the event thread keeps running: a call it is in takes its next step, and
\* a poll returns once a descriptor is readable
WakeFairness ==
    /\ WF_vars(WaitCheckStep)
    /\ WF_vars(PollEnterStep)
    /\ WF_vars(PollWakeStep)
    /\ WF_vars(DrainStep)
    /\ WF_vars(ProcessStep)

\* ---------------------------------------------------------------------
\* Cursor motion and disabled-cursor recentring
\* (loader.c 1500-1531, 2839-2859, 2898-2907)
\* ---------------------------------------------------------------------
WinWidth == 2                  \* the content area of the window
WinHeight == 2
MaxWire == 2                   \* motion events sent and not yet read
MaxMoves == 3                  \* user motions in one run

\* loader.c 2854-2857: width / 2, height / 2
Centre == <<WinWidth \div 2, WinHeight \div 2>>

\* pointer positions: the origin, the centre, and positions that differ
\* from the centre in one coordinate only
Positions == {<<0, 0>>, Centre, <<WinWidth, WinHeight \div 2>>, <<WinWidth \div 2, 0>>}

MotionNotify(pos, cause) == [type |-> "MotionNotify", pos |-> pos, cause |-> cause]

\* loader.c 1505, the x coordinate only
MovedByWarpXOnly(pos, warp) == pos[1] = warp[1]

\* loader.c 1505-1506: the reported position is the one GLFW warped to
MovedByWarp(pos, warp) == pos[1] = warp[1] /\ pos[2] = warp[2]

\* loader.c 1500-1531: case MotionNotify; the positions handed to
\* _glfwInputCursorPos and the new lastCursorPos
ProcessMotionNotify(cfg, win, pos) ==
    IF ~MovedByWarp(pos, win.warp)
    THEN IF cfg.cursorMode = "DISABLED"
         THEN IF ~cfg.capturing \/ cfg.rawMouseMotion
              THEN [emitted |-> <<>>, last |-> win.last]
              ELSE [emitted |-> <<<<win.virtual[1] + (pos[1] - win.last[1]),
                                    win.virtual[2] + (pos[2] - win.last[2])>>>>,
                    last |-> pos]
         ELSE [emitted |-> <<pos>>, last |-> pos]
    ELSE [emitted |-> <<>>, last |-> pos]

\* _glfwInputCursorPos keeps the position it is given as the virtual position
InputCursorPos(virtual, emitted) ==
    IF emitted = <<>> THEN virtual ELSE emitted[Len(emitted)]

\* what is recorded of one processed event: the event, the window's
\* positions when it was taken, and what it emitted
Processed(ev, win, emitted) ==
    [pos |-> ev.pos, cause |-> ev.cause, warp |-> win.warp, last |-> win.last,
     virtual |-> win.virtual, emitted |-> emitted]

\* loader.c 2839-2844: the loop over the queued events
RECURSIVE DrainEvents(_, _, _)
DrainEvents(cfg, win, evs) ==
    IF evs = <<>> THEN [win |-> win, log |-> <<>>]
    ELSE LET r == ProcessMotionNotify(cfg, win, Head(evs).pos)
             w == [win EXCEPT !.last = r.last,
                              !.virtual = InputCursorPos(win.virtual, r.emitted)]
             rest == DrainEvents(cfg, w, Tail(evs))
         IN [win |-> rest.win,
             log |-> <<Processed(Head(evs), win, r.emitted)>> \o rest.log]

\* loader.c 2854-2855, always
NeedsRecentreAlways(cfg, win) == cfg.capturing

\* loader.c 2846-2855: a window has the cursor disabled and the cursor is
\* not where the last event left it in the centre
NeedsRecentre(cfg, win) ==
    cfg.capturing /\ (win.last[1] # Centre[1] \/ win.last[2] # Centre[2])

\* XWarpPointer: the server moves the pointer and reports the motion
WarpPointer(x, pos) ==
    [x EXCEPT !.pointer = pos,
              !.wire = IF x.pointer = pos THEN @ ELSE Append(@, MotionNotify(pos, "echo"))]

NoPtrOut == [op |-> "none", n |-> 0, events |-> <<>>, warps |-> <<>>, last |-> <<0, 0>>,
             trace |-> <<>>]

\* loader.c 2829-2859: _glfwPollEventsX11 with the arrived events, and
\* loader.c 2898-2907: _glfwSetCursorPosX11 for the recentring
PollEventsX11(arrived) ==
    LET d == DrainEvents(ptrCfg, ptrWin, SubSeq(ptrX.wire, 1, arrived))
        left == [ptrX EXCEPT !.wire = SubSeq(@, arrived + 1, Len(@))]
        warp == NeedsRecentre(ptrCfg, d.win)
    IN /\ ptrWin' = IF warp THEN [d.win EXCEPT !.warp = Centre] ELSE d.win
       /\ ptrX' = IF warp THEN WarpPointer(left, Centre) ELSE left
       /\ ptrOut' = [op |-> "poll", n |-> (ptrOut.n + 1) % 2, events |-> d.log,
                     warps |-> IF warp THEN <<Centre>> ELSE <<>>,
                     last |-> d.win.last,
                     trace |-> [i \in 1..arrived |-> "processEvent"]
                               \o (IF warp THEN <<"XWarpPointer">> ELSE <<>>)]

PtrCfgs ==
    {c \in [cursorMode : {"NORMAL", "DISABLED"}, capturing : BOOLEAN,
            rawMouseMotion : BOOLEAN] : c.capturing => c.cursorMode = "DISABLED"}

\* a window in normal mode has not been warped; a window that has the cursor
\* disabled was warped to its centre when the cursor was disabled, and the
\* report of that warp may still be on its way
PtrInit ==
    /\ ptrCfg \in PtrCfgs
    /\ \E last \in Positions :
           /\ ptrWin = [last |-> last, virtual |-> <<0, 0>>,
                        warp |-> IF ptrCfg.capturing THEN Centre ELSE <<0, 0>>]
           /\ ptrX = [pointer |-> IF ptrCfg.capturing THEN Centre ELSE last,
                      wire |-> IF ptrCfg.capturing /\ last # Centre
                               THEN <<MotionNotify(Centre, "echo")>> ELSE <<>>,
                      moves |-> 0]
    /\ ptrOut = NoPtrOut

PtrIdle ==
    /\ ptrCfg = [cursorMode |-> "NORMAL", capturing |-> FALSE, rawMouseMotion |-> FALSE]
    /\ ptrWin = [last |-> <<0, 0>>, virtual |-> <<0, 0>>, warp |-> <<0, 0>>]
    /\ ptrX = [pointer |-> <<0, 0>>, wire |-> <<>>, moves |-> 0]
    /\ ptrOut = NoPtrOut

\* the user moves the pointer inside the window
UserMovesPointer ==
    /\ ptrX.moves < MaxMoves
    /\ Len(ptrX.wire) < MaxWire
    /\ \E pos \in Positions \ {ptrX.pointer} :
           ptrX' = [pointer |-> pos, wire |-> Append(ptrX.wire, MotionNotify(pos, "user")),
                    moves |-> ptrX.moves + 1]
    /\ UNCHANGED <<ptrCfg, ptrWin, ptrOut>>
    /\ UNCHANGED notPtrVars

\* the application polls; the events that reached the client are processed
PollPointerEvents ==
    /\ \E arrived \in 0..Len(ptrX.wire) : PollEventsX11(arrived)
    /\ UNCHANGED ptrCfg
    /\ UNCHANGED notPtrVars

PtrNext ==
    \/ UserMovesPointer
    \/ PollPointerEvents


\* ---------------------------------------------------------------------
\* Button, client-message and focus events; full screen windows
\* (loader.c 368-458, 1403-1473, 1584-1620, 1786-1831, 2361-2408, 2516-2571)
\* ---------------------------------------------------------------------
MaxButton == 10                \* native buttons of the pointer device

Button1 == 1
GLFW_MOUSE_BUTTON_LEFT == 0
GLFW_MOUSE_BUTTON_RIGHT == 1
GLFW_MOUSE_BUTTON_MIDDLE == 2

Click(button, action) == [button |-> button, action |-> action]

NoClientMessage == [message_type |-> "None", protocol |-> "None", window |-> "none",
                    timestamp |-> 0, filtered |-> FALSE]
NoInpOut == [op |-> "none", button |-> 0, action |-> "none", mode |-> "none",
             event |-> NoClientMessage, clicks |-> <<>>, scrolls |-> <<>>, closes |-> 0,
             sent |-> <<>>, order |-> <<>>, errors |-> <<>>, native |-> <<>>,
             overrideRedirect |-> FALSE, monitor |-> Null]

\* loader.c 1428-1431, without closing the gap
ExtraButtonKeepsGap(button) == button - Button1

\* loader.c 1428-1431, 1466-1469: buttons after 7
ExtraButton(button) == button - Button1 - 4

\* loader.c 1403-1435: case ButtonPress
ButtonPress(button) ==
    LET out == [NoInpOut EXCEPT !.op = "button", !.button = button, !.action = "press"]
    IN CASE button = 1 -> [out EXCEPT !.clicks = <<Click(GLFW_MOUSE_BUTTON_LEFT, "press")>>]
         [] button = 2 -> [out EXCEPT !.clicks = <<Click(GLFW_MOUSE_BUTTON_MIDDLE, "press")>>]
         [] button = 3 -> [out EXCEPT !.clicks = <<Click(GLFW_MOUSE_BUTTON_RIGHT, "press")>>]
         [] button = 4 -> [out EXCEPT !.scrolls = <<<<0, 1>>>>]
         [] button = 5 -> [out EXCEPT !.scrolls = <<<<0, -1>>>>]
         [] button = 6 -> [out EXCEPT !.scrolls = <<<<1, 0>>>>]
         [] button = 7 -> [out EXCEPT !.scrolls = <<<<-1, 0>>>>]
         [] OTHER -> [out EXCEPT !.clicks = <<Click(ExtraButton(button), "press")>>]

\* loader.c 1437-1473: case ButtonRelease
ButtonRelease(button) ==
    LET out == [NoInpOut EXCEPT !.op = "button", !.button = button, !.action = "release"]
    IN CASE button = 1 -> [out EXCEPT !.clicks = <<Click(GLFW_MOUSE_BUTTON_LEFT, "release")>>]
         [] button = 2 -> [out EXCEPT !.clicks = <<Click(GLFW_MOUSE_BUTTON_MIDDLE, "release")>>]
         [] button = 3 -> [out EXCEPT !.clicks = <<Click(GLFW_MOUSE_BUTTON_RIGHT, "release")>>]
         [] button > 7 -> [out EXCEPT !.clicks = <<Click(ExtraButton(button), "release")>>]
         [] OTHER -> out

\* the client messages a window manager or another client sends
ClientMessages ==
    [message_type : {"None", "WM_PROTOCOLS", "OTHER"},
     protocol : {"None", "WM_DELETE_WINDOW", "NET_WM_PING", "WM_TAKE_FOCUS"},
     window : {"w1"}, timestamp : {0, 9}, filtered : BOOLEAN]

\* loader.c 1610-1611, the received event as it is
PingReplyUnchanged(ev) == ev

\* loader.c 1610-1611: XEvent reply = *event; reply.xclient.window = root
PingReply(ev) == [ev EXCEPT !.window = "root"]

\* loader.c 1584-1620: case ClientMessage, the window-manager protocols
ClientMessage(ev) ==
    LET out == [NoInpOut EXCEPT !.op = "client", !.event = ev]
    IN IF ev.filtered \/ ev.message_type = "None" THEN out
       ELSE IF ev.message_type = "WM_PROTOCOLS"
       THEN IF ev.protocol = "None" THEN out
            ELSE IF ev.protocol = "WM_DELETE_WINDOW"
            THEN [out EXCEPT !.closes = 1, !.order = <<"_glfwInputWindowCloseRequest">>]
            ELSE IF ev.protocol = "NET_WM_PING"
            THEN [out EXCEPT !.sent = <<[to |-> "root", event |-> PingReply(ev)]>>,
                             !.order = <<"XSendEvent">>]
            ELSE out
       ELSE out

\* loader.c 384 and 431, the test inverted
HasFullscreenStateInverted(cfg) == ~cfg.ewmh

\* loader.c 384 and 431: _glfw.x11.NET_WM_STATE && NET_WM_STATE_FULLSCREEN
HasFullscreenState(cfg) == cfg.ewmh

\* loader.c 368-458: updateWindowMode; the new flag and the requests made
updateWindowMode(cfg, win) ==
    IF win.monitor # Null
    THEN IF HasFullscreenState(cfg)
         THEN [win |-> win, native |-> <<"NET_WM_STATE_ADD_FULLSCREEN">>]
         ELSE [win |-> [win EXCEPT !.overrideRedirect = TRUE],
               native |-> <<"XChangeWindowAttributes">>]
    ELSE IF HasFullscreenState(cfg)
         THEN [win |-> win, native |-> <<"NET_WM_STATE_REMOVE_FULLSCREEN">>]
         ELSE [win |-> [win EXCEPT !.overrideRedirect = FALSE],
               native |-> <<"XChangeWindowAttributes">>]

\* loader.c 1131-1165: acquireMonitor; an override-redirect window is placed
\* over its monitor by the client itself
AcquireMonitorX11(win) ==
    [win |-> [win EXCEPT !.holds = TRUE],
     native |-> IF win.overrideRedirect THEN <<"XMoveResizeWindow">> ELSE <<>>]

\* loader.c 2560-2561: updateWindowMode and acquireMonitor
ModeAndAcquire(cfg, win) ==
    LET u == updateWindowMode(cfg, win)
        a == AcquireMonitorX11(u.win)
    IN [win |-> a.win, native |-> u.native \o a.native]

\* loader.c 2516-2571: _glfwSetWindowMonitorX11, up to its return or up to
\* the wait for the window to become visible (2554-2558).  A map request
\* goes to the server, which maps the window when the window manager lets it
SetWindowMonitorX11(cfg, win, monitor) ==
    IF win.monitor = monitor
    THEN IF monitor = Null THEN [win |-> win, native |-> <<"XMoveResizeWindow">>]
         ELSE IF win.holds THEN AcquireMonitorX11(win)
         ELSE [win |-> win, native |-> <<>>]
    ELSE LET w1 == [win EXCEPT !.monitor = monitor, !.holds = FALSE]
         IN IF monitor # Null
            THEN IF w1.state = "visible"
                 THEN ModeAndAcquire(cfg, w1)
                 ELSE [win |-> [w1 EXCEPT !.mapPending = TRUE, !.wait = "setMonitor"],
                       native |-> <<"XMapRaised">>]
            ELSE LET u == updateWindowMode(cfg, w1)
                 IN [win |-> u.win, native |-> u.native \o <<"XMoveResizeWindow">>]

\* loader.c 2475-2482: _glfwShowWindowX11, up to its return or up to the wait
ShowWindowX11(win) ==
    IF win.state = "visible"
    THEN [win |-> win, native |-> <<>>]
    ELSE [win |-> [win EXCEPT !.mapPending = TRUE, !.wait = "show"],
          native |-> <<"XMapWindow">>]

\* loader.c 2484-2488: _glfwHideWindowX11; the server unmaps a mapped window
HideWindowX11(win) ==
    [win |-> [win EXCEPT !.state = IF @ = "visible" THEN "hidden" ELSE @],
     native |-> <<"XUnmapWindow">>]

\* loader.c 186-202: waitForVisibilityNotify returns, with the event or when
\* the timeout has passed, and the call that waited goes on to its return
\* (2560-2561, 2393-2407, 2482)
AfterVisibilityWait(cfg, win) ==
    LET w1 == [win EXCEPT !.wait = "none"]
    IN IF win.wait = "setMonitor"
       THEN LET t == ModeAndAcquire(cfg, w1)
            IN [win |-> t.win, op |-> "setMonitor", native |-> <<"XMapRaised">> \o t.native]
       ELSE [win |-> w1, op |-> win.wait, native |-> <<"XMapWindow">>]

\* the server maps the window a map request asked for
MapWindow(win) == [win EXCEPT !.state = "visible", !.mapPending = FALSE]

\* loader.c 2361-2374, without the override-redirect test
RefusesIconifyNever(win) == FALSE

\* loader.c 2363 and 2378: override-redirect windows are not iconified or restored
RefusesIconify(win) == win.overrideRedirect

\* loader.c 2361-2374: _glfwIconifyWindowX11
IconifyWindowX11(win) ==
    IF RefusesIconify(win)
    THEN [win |-> win, native |-> <<>>, errors |-> <<PlatformError>>,
          order |-> <<"_glfwInputError">>]
    ELSE [win |-> [win EXCEPT !.state = IF @ = "visible" THEN "iconic" ELSE @],
          native |-> <<"XIconifyWindow">>, errors |-> <<>>, order |-> <<"XIconifyWindow">>]

\* loader.c 2376-2408: _glfwRestoreWindowX11, up to its return or up to the
\* wait for the window to become visible (2389-2390); maxAtoms: the window
\* manager has the maximization atoms
RestoreWindowX11(win, maxAtoms) ==
    IF RefusesIconify(win)
    THEN [win |-> win, native |-> <<>>, errors |-> <<PlatformError>>]
    ELSE IF win.state = "iconic"
    THEN [win |-> [win EXCEPT !.mapPending = TRUE, !.wait = "restore"],
          native |-> <<"XMapWindow">>, errors |-> <<>>]
    ELSE IF win.state = "visible" /\ maxAtoms
    THEN [win |-> win, native |-> <<"NET_WM_STATE_REMOVE_MAXIMIZED">>, errors |-> <<>>]
    ELSE [win |-> win, native |-> <<>>, errors |-> <<>>]

FocusModes == {"NotifyNormal", "NotifyGrab", "NotifyUngrab", "NotifyWhileGrabbed"}

\* loader.c 1808-1831: case FocusOut
FocusOut(cfg, win, mode) ==
    LET out == [NoInpOut EXCEPT !.op = "focusOut", !.mode = mode]
    IN IF mode \in {"NotifyGrab", "NotifyUngrab"}
       THEN [win |-> win, out |-> out]
       ELSE LET cursor == IF cfg.cursorMode = "DISABLED" THEN <<"enableCursor">>
                          ELSE IF cfg.cursorMode = "CAPTURED" THEN <<"releaseCursor">>
                          ELSE <<>>
                ic == IF cfg.ic THEN <<"XUnsetICFocus">> ELSE <<>>
                iconify == win.monitor # Null /\ cfg.autoIconify
                i == IconifyWindowX11(win)
            IN [win |-> IF iconify THEN i.win ELSE win,
                out |-> [out EXCEPT
                    !.order = cursor \o ic \o (IF iconify THEN i.order ELSE <<>>)
                              \o <<"_glfwInputWindowFocus">>,
                    !.native = IF iconify THEN i.native ELSE <<>>,
                    !.errors = IF iconify THEN i.errors ELSE <<>>]]

\* loader.c 1786-1806: case FocusIn
FocusIn(cfg, win, mode) ==
    LET out == [NoInpOut EXCEPT !.op = "focusIn", !.mode = mode]
    IN IF mode \in {"NotifyGrab", "NotifyUngrab"}
       THEN out
       ELSE [out EXCEPT !.order =
                (IF cfg.cursorMode = "DISABLED" THEN <<"disableCursor">>
                 ELSE IF cfg.cursorMode = "CAPTURED" THEN <<"captureCursor">>
                 ELSE <<>>)
                \o (IF cfg.ic THEN <<"XSetICFocus">> ELSE <<>>)
                \o <<"_glfwInputWindowFocus">>]

InpCfgs == [ewmh : BOOLEAN, autoIconify : BOOLEAN,
            cursorMode : {"NORMAL", "DISABLED", "CAPTURED"}, ic : BOOLEAN]

\* a window as createNativeWindow leaves it: windowed and hidden
NewInpWin == [monitor |-> Null, holds |-> FALSE, overrideRedirect |-> FALSE,
              state |-> "hidden", mapPending |-> FALSE, wait |-> "none"]

InpInit ==
    /\ inpCfg \in InpCfgs
    /\ inpWin = NewInpWin
    /\ inpOut = NoInpOut

InpIdle ==
    /\ inpCfg = [ewmh |-> TRUE, autoIconify |-> FALSE, cursorMode |-> "NORMAL", ic |-> FALSE]
    /\ inpWin = NewInpWin
    /\ inpOut = NoInpOut

\* what every call records of the window it leaves
Leaves(out, win) ==
    [out EXCEPT !.overrideRedirect = win.overrideRedirect, !.monitor = win.monitor]

\* no call is blocked in waitForVisibilityNotify, so the thread can process
\* events and make calls
InpReady == inpWin.wait = "none"

\* the operation a call records: its own when it returned, "wait" while it
\* is blocked
OpOrWait(op, win) == IF win.wait = "none" THEN op ELSE "wait"

ButtonEvent ==
    /\ InpReady
    /\ \E button \in 1..MaxButton, press \in BOOLEAN :
           inpOut' = Leaves(IF press THEN ButtonPress(button) ELSE ButtonRelease(button),
                            inpWin)
    /\ UNCHANGED <<inpCfg, inpWin>>
    /\ UNCHANGED notInpVars

ClientMessageEvent ==
    /\ InpReady
    /\ \E ev \in ClientMessages : inpOut' = Leaves(ClientMessage(ev), inpWin)
    /\ UNCHANGED <<inpCfg, inpWin>>
    /\ UNCHANGED notInpVars

FocusInEvent ==
    /\ InpReady
    /\ \E mode \in FocusModes : inpOut' = Leaves(FocusIn(inpCfg, inpWin, mode), inpWin)
    /\ UNCHANGED <<inpCfg, inpWin>>
    /\ UNCHANGED notInpVars

FocusOutEvent ==
    /\ InpReady
    /\ \E mode \in FocusModes :
           LET f == FocusOut(inpCfg, inpWin, mode)
           IN /\ inpWin' = f.win
              /\ inpOut' = Leaves(f.out, f.win)
    /\ UNCHANGED inpCfg
    /\ UNCHANGED notInpVars

SetWindowMonitorX11Call ==
    /\ InpReady
    /\ \E monitor \in Monitors \cup {Null} :
           LET r == SetWindowMonitorX11(inpCfg, inpWin, monitor)
           IN /\ inpWin' = r.win
              /\ inpOut' = Leaves([NoInpOut EXCEPT !.op = OpOrWait("setMonitor", r.win),
                                                   !.native = r.native], r.win)
    /\ UNCHANGED inpCfg
    /\ UNCHANGED notInpVars

IconifyWindowCall ==
    /\ InpReady
    /\ LET r == IconifyWindowX11(inpWin)
       IN /\ inpWin' = r.win
          /\ inpOut' = Leaves([NoInpOut EXCEPT !.op = "iconify", !.native = r.native,
                                               !.errors = r.errors], r.win)
    /\ UNCHANGED inpCfg
    /\ UNCHANGED notInpVars

RestoreWindowCall ==
    /\ InpReady
    /\ \E maxAtoms \in BOOLEAN :
           LET r == RestoreWindowX11(inpWin, maxAtoms)
           IN /\ inpWin' = r.win
              /\ inpOut' = Leaves([NoInpOut EXCEPT !.op = OpOrWait("restore", r.win),
                                                   !.native = r.native,
                                                   !.errors = r.errors], r.win)
    /\ UNCHANGED inpCfg
    /\ UNCHANGED notInpVars

ShowWindowCall ==
    /\ InpReady
    /\ LET r == ShowWindowX11(inpWin)
       IN /\ inpWin' = r.win
          /\ inpOut' = Leaves([NoInpOut EXCEPT !.op = OpOrWait("show", r.win),
                                               !.native = r.native], r.win)
    /\ UNCHANGED inpCfg
    /\ UNCHANGED notInpVars

HideWindowCall ==
    /\ InpReady
    /\ LET r == HideWindowX11(inpWin)
       IN /\ inpWin' = r.win
          /\ inpOut' = Leaves([NoInpOut EXCEPT !.op = "hide", !.native = r.native], r.win)
    /\ UNCHANGED inpCfg
    /\ UNCHANGED notInpVars

\* the blocked call goes on and returns
VisibilityWaitReturns ==
    /\ ~InpReady
    /\ LET r == AfterVisibilityWait(inpCfg, inpWin)
       IN /\ inpWin' = r.win
          /\ inpOut' = Leaves([NoInpOut EXCEPT !.op = r.op, !.native = r.native], r.win)
    /\ UNCHANGED inpCfg
    /\ UNCHANGED notInpVars

\* the server acts on a map request, while the call waits or after it returned
ServerMapsWindow ==
    /\ inpWin.mapPending
    /\ inpWin' = MapWindow(inpWin)
    /\ UNCHANGED <<inpCfg, inpOut>>
    /\ UNCHANGED notInpVars

InpNext ==
    \/ ButtonEvent
    \/ ClientMessageEvent
    \/ FocusInEvent
    \/ FocusOutEvent
    \/ SetWindowMonitorX11Call
    \/ ShowWindowCall
    \/ HideWindowCall
    \/ VisibilityWaitReturns
    \/ ServerMapsWindow
    \/ IconifyWindowCall
    \/ RestoreWindowCall


\* ---------------------------------------------------------------------
\* Cursor modes, input focus and the disabled-cursor window
\* ---------------------------------------------------------------------
MaxFocusWire == 2              \* focus events sent and not yet processed

\* GLFW_CURSOR_HIDDEN is handled as GLFW_CURSOR_NORMAL by every function here
CursorModes == {"NORMAL", "CAPTURED", "DISABLED"}

FocusEvent(type, window, mode) == [type |-> type, window |-> window, mode |-> mode]

\* loader.c 1788-1794, 1810-1816: focus events of grabs are ignored
IgnoredFocus(ev) == ev.mode \in {"NotifyGrab", "NotifyUngrab"}

\* loader.c 1786-1806: FocusIn; disableCursor (574-588) records the window
CursorFocusIn(modes, dcw, ev) ==
    IF IgnoredFocus(ev) THEN dcw
    ELSE IF modes[ev.window] = "DISABLED" THEN ev.window
    ELSE dcw

\* loader.c 1808-1831: FocusOut; enableCursor (592-603) clears the global
\* whichever window it holds
CursorFocusOut(modes, dcw, ev) ==
    IF IgnoredFocus(ev) THEN dcw
    ELSE IF modes[ev.window] = "DISABLED" THEN Null
    ELSE dcw

\* loader.c 2573-2580: _glfwWindowFocusedX11 asks the server
WindowFocusedX11(focus, w) == focus = w

\* loader.c 2909-2946: _glfwSetCursorModeX11
SetCursorModeX11(dcw, focus, w, mode) ==
    IF WindowFocusedX11(focus, w)
    THEN IF mode = "DISABLED" THEN w
         ELSE IF dcw = w THEN Null
         ELSE dcw
    ELSE dcw

\* loader.c 2096-2097: _glfwDestroyWindowX11 leaves disabled mode first
DestroyDisabledCursor(dcw, w) == IF dcw = w THEN Null ELSE dcw

CurInit ==
    /\ curMode = [w \in Windows |-> "NORMAL"]
    /\ curLive = [w \in Windows |-> TRUE]
    /\ disabledCursorWindow = Null
    /\ xFocus = "other"
    /\ focusWire = <<>>

CurIdle ==
    /\ curMode = [w \in Windows |-> "NORMAL"]
    /\ curLive = [w \in Windows |-> FALSE]
    /\ disabledCursorWindow = Null
    /\ xFocus = "other"
    /\ focusWire = <<>>

\* glfwSetInputMode(window, GLFW_CURSOR, mode): the mode is stored in the
\* window and the platform function applies it
SetCursorModeCall ==
    /\ \E w \in Windows, mode \in CursorModes :
           /\ curLive[w]
           /\ curMode' = [curMode EXCEPT ![w] = mode]
           /\ disabledCursorWindow' = SetCursorModeX11(disabledCursorWindow, xFocus, w, mode)
    /\ UNCHANGED <<curLive, xFocus, focusWire>>
    /\ UNCHANGED notCurVars

\* the server moves the input focus and sends FocusOut and FocusIn to the
\* windows concerned
ServerFocusMoves ==
    /\ \E to \in {w \in Windows : curLive[w]} \cup {"other"} :
           /\ to # xFocus
           /\ xFocus' = to
           /\ focusWire' = focusWire
                  \o (IF xFocus \in Windows
                      THEN <<FocusEvent("FocusOut", xFocus, "NotifyNormal")>> ELSE <<>>)
                  \o (IF to \in Windows
                      THEN <<FocusEvent("FocusIn", to, "NotifyNormal")>> ELSE <<>>)
    /\ Len(focusWire') <= MaxFocusWire
    /\ UNCHANGED <<curMode, curLive, disabledCursorWindow>>
    /\ UNCHANGED notCurVars

\* a keyboard grab starts or ends: the focus window is sent a focus event of
\* mode NotifyGrab or NotifyUngrab and the focus stays where it is
ServerGrabChanges ==
    /\ xFocus \in Windows
    /\ Len(focusWire) < MaxFocusWire
    /\ \E ev \in {FocusEvent("FocusOut", xFocus, "NotifyGrab"),
                  FocusEvent("FocusIn", xFocus, "NotifyUngrab")} :
           focusWire' = Append(focusWire, ev)
    /\ UNCHANGED <<curMode, curLive, disabledCursorWindow, xFocus>>
    /\ UNCHANGED notCurVars

\* processEvent takes a focus event; loader.c 1271-1279: events of windows
\* not in the context table are dropped
ProcessFocusEvent ==
    /\ focusWire # <<>>
    /\ LET ev == Head(focusWire)
       IN disabledCursorWindow' =
              IF ~curLive[ev.window] THEN disabledCursorWindow
              ELSE IF ev.type = "FocusIn"
              THEN CursorFocusIn(curMode, disabledCursorWindow, ev)
              ELSE CursorFocusOut(curMode, disabledCursorWindow, ev)
    /\ focusWire' = Tail(focusWire)
    /\ UNCHANGED <<curMode, curLive, xFocus>>
    /\ UNCHANGED notCurVars

\* _glfwDestroyWindowX11; the server takes the focus from a destroyed window
DestroyCursorWindowCall ==
    /\ \E w \in Windows :
           /\ curLive[w]
           /\ disabledCursorWindow' = DestroyDisabledCursor(disabledCursorWindow, w)
           /\ curLive' = [curLive EXCEPT ![w] = FALSE]
           /\ curMode' = [curMode EXCEPT ![w] = "NORMAL"]
           /\ xFocus' = IF xFocus = w THEN "other" ELSE xFocus
    /\ UNCHANGED focusWire
    /\ UNCHANGED notCurVars

CurNext ==
    \/ SetCursorModeCall
    \/ ServerFocusMoves
    \/ ServerGrabChanges
    \/ ProcessFocusEvent
    \/ DestroyCursorWindowCall


LoaderIdle == LoaderInit

\* ---------------------------------------------------------------------
\* Claims about the module loader hook
\* ---------------------------------------------------------------------
HasNullCallback(l) == l.open = Null \/ l.close = Null \/ l.resolve = Null

\* C10: a glfwInitModuleLoader call given a loader with a null open, close or
\* resolve callback reports InvalidValue and leaves all four fields of the
\* installed loader as they were.
C10_PartialLoaderRejected ==
    [][(loaderArg'.ptr = "valid" /\ HasNullCallback(loaderArg'.l))
         => (moduleLoader' = moduleLoader /\ loaderErr' = InvalidValue)]_vars

\* a partial loader was just rejected while a custom loader is installed
C10_Witness ==
    /\ loaderArg.ptr = "valid"
    /\ HasNullCallback(loaderArg.l)
    /\ loaderArg.l.open # Null
    /\ loaderErr = InvalidValue
    /\ moduleLoader.open # Null
    /\ moduleLoader.open # loaderArg.l.open

\* ---------------------------------------------------------------------
\* Claims about configuration selection
\* ---------------------------------------------------------------------
EglCalled == eglOut # EglNoCall

\* C8: a selection with stereo requested fails with FormatUnavailable and has
\* made no native configuration query, whatever the API and the other fields.
C8_StereoRejectedBeforeEnumeration ==
    (EglCalled /\ eglIn.fb.stereo)
        => (~eglOut.ok /\ eglOut.error = FormatUnavailable /\ eglOut.calls = 0)

\* a stereo request was rejected although the driver offers a fitting configuration
C8_Witness ==
    /\ EglCalled
    /\ eglIn.fb.stereo
    /\ eglIn.platform = "X11"
    /\ eglIn.client = "OpenGL"
    /\ Len(eglIn.configs) = MaxConfigs
    /\ \E i \in 1..Len(eglIn.configs) :
          /\ eglIn.configs[i].visualid = 33
          /\ eglIn.configs[i].cbt = "RGB"
          /\ "GL" \in eglIn.configs[i].renderable
    /\ eglOut.error = FormatUnavailable

\* configuration i of the request reaches the API-family test (it passed the
\* colour-buffer, surface-type and native-visual tests) and fails it
DiscardedForApi(in, i) ==
    LET n == in.configs[i]
    IN /\ n.cbt = "RGB"
       /\ (IF in.platform = "Null" THEN "PBUFFER" ELSE "WINDOW") \in n.surface
       /\ in.platform = "X11" => n.visualid # 0
       /\ (IF in.client = "OpenGLES"
           THEN IF in.major = 1 THEN "ES" ELSE "ES2"
           ELSE "GL") \notin n.renderable

SomeDiscardedForApi(in) ==
    ~in.fb.stereo /\ \E i \in 1..Len(in.configs) : DiscardedForApi(in, i)

\* C9 as stated: a failed selection reports ApiUnavailable when a configuration
\* was discarded for the API family and FormatUnavailable otherwise, an empty
\* driver list included.
C9_Original ==
    (EglCalled /\ ~eglOut.ok)
        => eglOut.error = (IF SomeDiscardedForApi(eglIn)
                           THEN ApiUnavailable ELSE FormatUnavailable)

\* C9 amended: as stated, except that an empty driver list reports
\* ApiUnavailable.
C9_ErrorKindOfFailedSelection ==
    (EglCalled /\ ~eglOut.ok)
        => eglOut.error = (IF SomeDiscardedForApi(eglIn)
                              \/ (~eglIn.fb.stereo /\ Len(eglIn.configs) = 0)
                           THEN ApiUnavailable ELSE FormatUnavailable)

\* a failed selection whose only candidates were of the wrong API family, among
\* configurations discarded for other reasons
C9_Witness ==
    /\ EglCalled
    /\ ~eglOut.ok
    /\ eglOut.error = ApiUnavailable
    /\ Len(eglIn.configs) = MaxConfigs
    /\ SomeDiscardedForApi(eglIn)
    /\ \E i \in 1..Len(eglIn.configs) : eglIn.configs[i].cbt # "RGB"

\* ---------------------------------------------------------------------
\* Claims about drag and drop
\* ---------------------------------------------------------------------
\* the types an XdndEnter message offers: the type-list property when the
\* list bit is set, the three inline types otherwise
OffersUriList(m) ==
    TextUriList \in (IF m.list THEN Range(m.typeList) ELSE Range(m.inline))

EnterSeen == dndLastEnter # NoEnterYet

DropRejectedWithoutConversion ==
    /\ xdnd.format = NoneAtom
    /\ dndOut.sent = "XdndFinished"
    /\ dndOut.to = dndLastEnter.source
    /\ dndOut.accepted = 0
    /\ dndOut.convert = "none"

\* C7 as stated: after an XdndEnter that does not offer the URI-list type, a
\* handled XdndDrop of a source speaking version 2 or more is answered with
\* XdndFinished flagged rejected and no conversion is requested.
C7_Original ==
    (/\ dndOut.event = "drop"
     /\ EnterSeen
     /\ ~OffersUriList(dndLastEnter)
     /\ dndLastEnter.versionByte >= 2)
        => DropRejectedWithoutConversion

\* C7 amended: the same for source versions 2 to 5; for a newer version the
\* drop is not answered at all, and never is a conversion requested.
C7_DropWithoutFormatRejected ==
    (/\ dndOut.event = "drop"
     /\ EnterSeen
     /\ ~OffersUriList(dndLastEnter))
        => /\ xdnd.format = NoneAtom
           /\ dndOut.convert = "none"
           /\ (dndLastEnter.versionByte >= 2 /\ dndLastEnter.versionByte <= GLFW_XDND_VERSION)
                 => DropRejectedWithoutConversion
           /\ dndLastEnter.versionByte > GLFW_XDND_VERSION => dndOut.sent = "none"

\* a drop was rejected after an enter whose type list lacks the URI-list type
C7_Witness ==
    /\ dndOut.event = "drop"
    /\ EnterSeen
    /\ dndLastEnter.list
    /\ Len(dndLastEnter.typeList) > 3
    /\ ~OffersUriList(dndLastEnter)
    /\ dndLastEnter.versionByte = GLFW_XDND_VERSION
    /\ DropRejectedWithoutConversion

\* ---------------------------------------------------------------------
\* Claims about window state and monitor acquisition
\* ---------------------------------------------------------------------
\* C3: a PropertyNotify step emits an iconify notification exactly when it
\* changes the window's recorded iconified flag, and the notification carries
\* the new value; a reading equal to the recorded flag, a reading other than
\* Iconic or Normal, a deleted property or another atom emits none and changes
\* nothing, and no other operation touches the flag.
C3_IconifyNotifiedPerChange ==
    [][/\ winOut'.event = "property" =>
            /\ (winOut'.iconify # "none")
                  <=> (x11Iconified'[winOut'.window] # x11Iconified[winOut'.window])
            /\ winOut'.iconify = "iconified" => x11Iconified'[winOut'.window]
            /\ winOut'.iconify = "restored" => ~x11Iconified'[winOut'.window]
            /\ \A v \in Windows \ {winOut'.window} : x11Iconified'[v] = x11Iconified[v]
       /\ winOut'.event # "property" =>
            (winOut'.iconify = "none" /\ x11Iconified' = x11Iconified)]_vars

\* a monitor-attached window was iconified and has just been notified restored
C3_Witness ==
    /\ winOut.event = "property"
    /\ winOut.iconify = "restored"
    /\ winMonitor[winOut.window] # Null
    /\ mon.window[winMonitor[winOut.window]] = winOut.window

\* every window acquired a monitor of its own once and released it, and did
\* nothing else to monitors
AllAcquiredAndReleased ==
    /\ \A w \in Windows : scen[w].st = "done"
    /\ \A w, v \in Windows : w # v => scen[w].mon # scen[v].mon

SomeMonitorHeld == \E m \in Monitors : mon.window[m] # Null

\* C4 as stated: whatever the order of the acquisitions and releases, the
\* screen saver was disabled exactly once and restored exactly once.
C4_Original ==
    AllAcquiredAndReleased => (mon.disables = 1 /\ mon.restores = 1)

\* C4 amended: the screen saver is disabled by each acquisition made while no
\* window holds a monitor and restored by each release that leaves none held,
\* so it is off exactly while a monitor is held; this is once each when every
\* acquisition precedes every release.
C4_SaverDisabledWhileHeld ==
    /\ [](/\ mon.disables - mon.restores = (IF SomeMonitorHeld THEN 1 ELSE 0)
          /\ mon.server = (IF SomeMonitorHeld THEN "off" ELSE "user")
          /\ (AllAcquiredAndReleased /\ ~acqAfterRel)
                => (mon.disables = 1 /\ mon.restores = 1))
    /\ [][/\ mon'.disables \in {mon.disables, mon.disables + 1}
          /\ mon'.restores \in {mon.restores, mon.restores + 1}
          /\ mon'.disables = mon.disables + 1 =>
                (mon'.count > 0 /\ (mon.count = 0 \/ mon'.restores = mon.restores + 1))
          /\ mon'.restores = mon.restores + 1 =>
                (mon.count > 0 /\ (mon'.count = 0 \/ mon'.disables = mon.disables + 1))]_vars

\* both windows held their monitors at once, and both have released them
C4_Witness ==
    /\ AllAcquiredAndReleased
    /\ ~acqAfterRel
    /\ mon.disables = 1
    /\ mon.restores = 1
    /\ mon.count = 0

\* the last operation was an open, close or resolve request
RequestRouted == loaderArg = NoLoaderCall /\ loaderRoute.op # "none"

\* the callback of the accepted loader that serves the operation
AcceptedCallback(op) ==
    CASE op = "open" -> loaderAccepted.l.open
      [] op = "close" -> loaderAccepted.l.close
      [] op = "resolve" -> loaderAccepted.l.resolve

\* C11: every open, close and resolve request goes to the callback and the
\* user pointer of the last accepted glfwInitModuleLoader call when that call
\* passed a loader, and to the platform loader when it passed null or no call
\* was accepted; the stored loader has all three callbacks or none.
C11_RequestsUseAcceptedLoader ==
    /\ RequestRouted =>
           IF loaderAccepted.ptr = "valid"
           THEN /\ loaderRoute.via = AcceptedCallback(loaderRoute.op)
                /\ loaderRoute.via # Null
                /\ loaderRoute.user = loaderAccepted.l.user
           ELSE loaderRoute.via = "platform"
    /\ \/ moduleLoader.open # Null /\ moduleLoader.close # Null /\ moduleLoader.resolve # Null
       \/ moduleLoader.open = Null /\ moduleLoader.close = Null /\ moduleLoader.resolve = Null

C11_Witness ==
    /\ RequestRouted
    /\ loaderRoute.op = "close"
    /\ loaderAccepted.ptr = "valid"
    /\ loaderRoute.via = "closeB"
    /\ loaderRoute.user = "userA"
    /\ loaderErr = NoError

\* ---------------------------------------------------------------------
\* Claims about key events
\* ---------------------------------------------------------------------
\* the last event processed was a KeyRelease while auto-repeat is not detectable
ReleaseProcessed == ~keyCfg.detectable /\ keyOut.ev.type = "KeyRelease"

\* ev is a KeyPress of the key and window of the last event processed
PressOfSameKey(ev) ==
    /\ ev.type = "KeyPress"
    /\ ev.window = keyOut.ev.window
    /\ ev.keycode = keyOut.ev.keycode

\* ev carries a timestamp less than 20 ms after the last event processed
WithinEpsilon(ev) ==
    /\ ev.time >= keyOut.ev.time
    /\ ev.time - keyOut.ev.time < RepeatEpsilon

\* C1 as stated: when auto-repeat is not detectable, a KeyRelease that is
\* followed in the event stream by a KeyPress of the same keycode on the same
\* window less than 20 ms later produces no release notification.
C1_Original ==
    (ReleaseProcessed /\ xq # <<>> /\ PressOfSameKey(Head(xq)) /\ WithinEpsilon(Head(xq)))
        => keyOut.input = <<>>

\* C1 amended: when auto-repeat is not detectable, a KeyRelease produces no
\* release notification if the next event already queued when it is processed
\* is a KeyPress of the same keycode on the same window stamped less than
\* 20 ms later; it is reported if no event is queued behind it or the next
\* queued event is not such a KeyPress.
C1_QueuedRepeatReleaseDiscarded ==
    ReleaseProcessed =>
        /\ (keyOut.queued /\ PressOfSameKey(Head(xq)) /\ WithinEpsilon(Head(xq)))
               => keyOut.input = <<>>
        /\ (~keyOut.queued \/ ~PressOfSameKey(Head(xq)))
               => keyOut.input = <<"release">>

C1_Witness ==
    /\ ReleaseProcessed
    /\ keyOut.queued
    /\ PressOfSameKey(Head(xq))
    /\ WithinEpsilon(Head(xq))
    /\ keyOut.input = <<>>

\* the step processes an event
EventProcessed == Len(xq') < Len(xq)

\* ev is a KeyPress on a window with an input context
PressWithIC(ev) == ev.type = "KeyPress" /\ keyCfg.ic[ev.window]

\* C2 as stated: with an input context, two KeyPress events for the same
\* keycode on the same window with the same timestamp, processed one after the
\* other, produce exactly one key-press notification, whatever the keycode and
\* the timestamp.
C2_Original ==
    [][(EventProcessed /\ PressWithIC(keyOut.ev) /\ keyOut'.ev = keyOut.ev)
           => Len(keyOut.input) + Len(keyOut'.input) = 1]_vars

\* C2 amended: with an input context, of two KeyPress events for the same
\* keycode on the same window with the same non-zero timestamp, processed one
\* after the other, the second produces no key-press notification, and the
\* first produces none when the keycode is 0: the pair produces at most one.
C2_DuplicatePressDropped ==
    [][(EventProcessed /\ PressWithIC(keyOut.ev) /\ keyOut'.ev = keyOut.ev
            /\ keyOut.ev.time # 0)
           => /\ keyOut'.input = <<>>
              /\ Len(keyOut.input) <= 1
              /\ (keyOut.ev.keycode = 0 => keyOut.input = <<>>)]_vars

C2_Witness ==
    /\ PressWithIC(keyOut.ev)
    /\ keyOut.ev.time # 0
    /\ keyOut.ev.keycode # 0
    /\ keyPressTimes[keyOut.ev.window][keyOut.ev.keycode] = keyOut.ev.time
    /\ keyOut.input = <<>>

\* ---------------------------------------------------------------------
\* Claims about selections
\* ---------------------------------------------------------------------
\* a read of the selection returned, and the helper window owned the
\* selection when the read was made
ReadAsOwner == selOut.op = "get" /\ selOut.owner = "helper"

\* C5: a read of the clipboard or of the primary selection made while the
\* helper window owns the selection returns the string last set for that
\* selection, and makes no conversion request and no wait for events.
C5_OwnerReadReturnsSetString ==
    ReadAsOwner =>
        /\ ~selOut.result.null
        /\ selOut.selection = "PRIMARY" => selOut.result = selLastSet.primary
        /\ selOut.selection = "CLIPBOARD" => selOut.result = selLastSet.clipboard
        /\ selOut.converts = 0
        /\ ~selOut.waited

\* a read returned after an INCR transfer of at least one non-empty chunk
IncrRead == selOut.op = "get" /\ selOut.chunks # <<>>

\* the UTF-8 encoding of a Latin-1 string
RECURSIVE Latin1AsUTF8(_)
Latin1AsUTF8(q) ==
    IF q = <<>> THEN <<>>
    ELSE (IF Head(q) < 128 THEN <<Head(q)>>
          ELSE <<192 + (Head(q) \div 64), 128 + (Head(q) % 64)>>) \o Latin1AsUTF8(Tail(q))

\* the chunks, each cut at its first zero byte, one after the other
RECURSIVE CutAndJoin(_)
CutAndJoin(chunks) ==
    IF chunks = <<>> THEN <<>>
    ELSE LET c == Head(chunks)
             zeros == {i \in 1..Len(c) : c[i] = 0}
             cut == IF zeros = {} THEN c
                    ELSE [i \in 1..((CHOOSE z \in zeros : \A y \in zeros : z <= y) - 1) |-> c[i]]
         IN cut \o CutAndJoin(Tail(chunks))

\* the byte arrays one after the other, whole: the concatenation as the
\* claim words it, which is not what the transfer computes (see AppendChunk)
RECURSIVE Flatten(_)
Flatten(qs) == IF qs = <<>> THEN <<>> ELSE Head(qs) \o Flatten(Tail(qs))

\* C6 as stated: after an INCR transfer of N >= 1 non-empty chunks and an
\* empty one, the string returned is exactly the concatenation of the chunks
\* in arrival order, and for the STRING target its Latin-1 decoding, made once.
C6_Original ==
    IncrRead =>
        /\ selOut.target = "UTF8_STRING" => selOut.result = Str(Flatten(selOut.chunks))
        /\ selOut.target = "STRING" =>
               /\ selOut.result = Str(Latin1AsUTF8(Flatten(selOut.chunks)))
               /\ selOut.latin1 = 1

\* C6 amended: after an INCR transfer of N >= 1 non-empty chunks and an empty
\* one, the string returned is the concatenation, in arrival order, of the
\* chunks each cut at its first zero byte; for the STRING target it is the
\* result of one call of convertLatin1toUTF8 on that whole concatenation.
C6_IncrChunksCutAtNulAndJoined ==
    IncrRead =>
        /\ selOut.path = "incr"
        /\ selOut.target = "UTF8_STRING" =>
               /\ selOut.result = Str(CutAndJoin(selOut.chunks))
               /\ selOut.latin1 = 0
        /\ selOut.target = "STRING" =>
               /\ selOut.result = Str(convertLatin1toUTF8(selBuild.charSigned,
                                                          CutAndJoin(selOut.chunks)))
               /\ selOut.latin1 = 1

C6_Witness ==
    /\ IncrRead
    /\ selOut.target = "STRING"
    /\ selOut.chunks = << <<65, 0>>, <<233>> >>
    /\ selOut.latin1 = 1
    /\ ~selBuild.charSigned
    /\ selOut.result = Str(<<65, 195, 169>>)

\* ---------------------------------------------------------------------
\* Claims about the life cycle of windows and contexts
\* ---------------------------------------------------------------------
\* C12: after any sequence of window creations and destructions a native
\* handle is in the reverse-lookup table if and only if it was created for
\* a window that is not yet destroyed, the table maps it to that window's
\* structure, and no structure is the value of two handles.
C12_TableMatchesLiveWindows ==
    /\ \A h \in XIDs : xContext[h] = lifeLive[h]
    /\ \A h \in XIDs : xContext[h] # "none" => lifeWin[xContext[h]].handle = h
    /\ \A g, h \in XIDs : (g # h /\ xContext[g] # "none") => xContext[g] # xContext[h]

\* the EGL calls of the last operation
LastCalls == {lifeOut.calls[i] : i \in DOMAIN lifeOut.calls}

\* C13 as stated: no EGL entry point is ever called while the EGL display
\* handle is null.
C13_Original == \A c \in LastCalls : c.have

\* C13: when EGL is terminated only after every window was destroyed and a
\* visual is selected only after initialisation succeeded, no EGL entry
\* point is ever given the display handle while it is null; the calls made
\* while it is null are those of initialisation: the client-extension query
\* on EGL_NO_DISPLAY and the entry points that take no display.  Context
\* creation entered with a null display handle makes no EGL call and
\* reports ApiUnavailable.
C13_NoCallWithNullDisplayHandle ==
    /\ \A c \in LastCalls :
           /\ c.arg = "handle" => c.have
           /\ ~c.have =>
                  /\ lifeOut.op = "init"
                  /\ \/ c.fn = "eglQueryString" /\ c.arg = "EGL_NO_DISPLAY"
                     \/ /\ c.arg = "none"
                        /\ c.fn \in {"eglGetError", "eglGetProcAddress", "eglGetDisplay",
                                     "eglGetPlatformDisplayEXT"}
    /\ (lifeOut.op = "createContext" /\ ~eglLib.display) =>
           (lifeOut.calls = <<>> /\ ~lifeOut.ok /\ lifeOut.error = ApiUnavailable)

\* an initialisation succeeded: it queried EGL_NO_DISPLAY before it had a
\* display and the display it obtained afterwards
C13_Witness ==
    /\ lifeOut.op = "init" /\ lifeOut.ok /\ eglLib.display
    /\ \E c \in LastCalls : c.fn = "eglQueryString" /\ c.arg = "EGL_NO_DISPLAY" /\ ~c.have
    /\ \E c \in LastCalls : c.fn = "eglQueryString" /\ c.arg = "handle" /\ c.have

\* C14 as stated: on X11 the client library of a destroyed context is not
\* unloaded by the destruction.
C14_Original ==
    lifePlatform = "X11" =>
        /\ \A w \in lifeNative.loaded : w \in lifeNative.lib
        /\ lifeOut.op = "destroyWindow" => ~lifeOut.unloaded

\* C14: on X11, destroying an EGL context whose window records the OpenGL
\* client API never unloads its client library, which stays loaded
\* afterwards; destroying a context whose window records anything else (the
\* OpenGL ES client API, or no API because the attributes were never
\* recorded) unloads its client library, as does every destruction on
\* another backend.  A window whose client library was loaded has its destroy
\* hook installed, so its destruction destroys the context.
C14_OnlyOpenGLClientLibraryKeptOnX11 ==
    \A w \in lifeNative.loaded :
        /\ (lifePlatform = "X11" /\ lifeWin[w].api = "OpenGL") =>
               /\ w \in lifeNative.lib
               /\ (lifeOut.op = "destroyWindow" /\ lifeOut.window = w) => ~lifeOut.unloaded
        /\ (lifeWin[w].state = "destroyed"
               /\ (lifePlatform # "X11" \/ lifeWin[w].api # "OpenGL")) =>
               /\ w \notin lifeNative.lib
               /\ lifeOut.window = w => lifeOut.unloaded

\* on X11 a window whose recorded API is OpenGL was destroyed and its client
\* library is still loaded, after a window whose attributes were never
\* recorded was destroyed and its client library unloaded
C14_Witness ==
    /\ lifePlatform = "X11"
    /\ lifeOut.op = "destroyWindow" /\ lifeOut.window = "w1"
    /\ lifeWin["w1"].state = "destroyed" /\ lifeWin["w1"].api = "OpenGL"
    /\ "w1" \in lifeNative.loaded /\ "w1" \in lifeNative.lib
    /\ "w1" \notin lifeNative.ctx
    /\ lifeWin["w2"].state = "destroyed" /\ lifeWin["w2"].api = "none"
    /\ "w2" \in lifeNative.loaded /\ "w2" \notin lifeNative.lib

\* C15: every native EGL context and surface that _glfwCreateContextEGL
\* created for a window is destroyed once _glfwDestroyWindowX11 destroyed
\* that window, also when the creation returned false after the native
\* context or the surface had been created.
C15_ContextDestroyedWithWindow ==
    lifePlatform = "X11" =>
        \A w \in Windows :
            lifeWin[w].state = "destroyed" =>
                (w \notin lifeNative.ctx /\ w \notin lifeNative.surf)

\* the last operation issued the native buffer swap
NativeSwapIssued == \E c \in LastCalls : c.fn = "eglSwapBuffers"

\* C16: swap-buffers on a window that is not the calling thread's current
\* window reports PlatformError and performs no native buffer swap; the
\* native swap is issued only when the window is the thread's current
\* window.
C16_SwapOnlyOnCurrentWindow ==
    lifeOut.op = "swapBuffers" =>
        /\ lifeOut.window # tlsCurrent =>
               (lifeOut.error = PlatformError /\ ~NativeSwapIssued /\ ~lifeOut.swapped)
        /\ NativeSwapIssued => (lifeOut.window = tlsCurrent /\ lifeOut.error = NoError)
        /\ lifeOut.swapped <=> NativeSwapIssued

\* a swap was asked of a window while the other window was current
C16_Witness ==
    /\ lifeOut.op = "swapBuffers" /\ lifeOut.window = "w1"
    /\ tlsCurrent = "w2" /\ lifeWin["w1"].vtable /\ lifeWin["w2"].vtable
    /\ lifeOut.error = PlatformError /\ ~NativeSwapIssued

\* C17: after any sequence of make-current calls the thread's recorded
\* current window is the argument (window or null) of the most recent call
\* whose native eglMakeCurrent succeeded; a call whose native bind or clear
\* fails reports PlatformError and leaves the recorded window unchanged.
C17_CurrentIsLastSuccessfulBind ==
    /\ tlsCurrent = lifeBound
    /\ lifeOut.op = "makeCurrent" =>
           /\ lifeOut.bound => (lifeOut.error = NoError /\ tlsCurrent = lifeOut.window)
           /\ ~lifeOut.bound => lifeOut.error = PlatformError

\* a window was made current, then a make-current of the other window failed
C17_Witness ==
    /\ lifeOut.op = "makeCurrent" /\ lifeOut.window = "w2" /\ ~lifeOut.bound
    /\ lifeOut.error = PlatformError
    /\ tlsCurrent = "w1" /\ lifeBound = "w1"

\* ---------------------------------------------------------------------
\* Claims about waking the event thread
\* ---------------------------------------------------------------------
\* the event thread is blocked in a wait and an empty event was posted
PostedWhileBlocked == evPc = "blocked" /\ pipeBytes > 0

\* a wait started after an empty event was posted behind the last drain
PostedBeforeWait == evPc \in WaitPcs /\ postPending

\* waitForAnyEvent returned: the event thread is in _glfwPollEventsX11
WaitReturned == evPc = "drain"

\* C18: an empty event posted by another thread is not lost: posted while
\* the event thread is blocked in a wait, the wait returns; posted after the
\* last drain of the wake-up pipe and before the next wait starts, that
\* wait never blocks and returns.
C18_PostedEmptyEventWakesWait ==
    /\ [](PostedBeforeWait => (evPc # "blocked" /\ ~evBlocked /\ pipeBytes > 0))
    /\ (PostedWhileBlocked ~> WaitReturned)
    /\ (PostedBeforeWait ~> WaitReturned)

\* a wait without timeout blocked, and an empty event was then posted
C18_Witness ==
    /\ PostedWhileBlocked /\ ~evTimed /\ evBlocked /\ ~xSocket /\ ~xQueued

\* ---------------------------------------------------------------------
\* Claims about reading a selection that another client owns
\* ---------------------------------------------------------------------
\* C19: a selection read as non-owner is bounded: getSelectionString
\* eventually returns, after at most one conversion request per target
\* format, even when the selection owner never answers a request or never
\* finishes an INCR transfer.
C19_ReadReturns ==
    /\ [](selGet.converts <= Len(SelTargets))
    /\ ((selGet.pc # "idle") ~> (selGet.pc = "idle"))

\* a read of a selection that the helper window did not own returned
ReadAsNonOwner == selOut.op = "get" /\ selOut.owner # "helper"

\* replies that store no string: no property, data of another type, an INCR
\* transfer without data
FailedReplies == {"refused", "mismatch", "empty"}

\* the string cached for the selection of the last operation
CachedString ==
    IF selOut.selection = "PRIMARY" THEN selString.primary ELSE selString.clipboard

\* C20: a selection read as non-owner requests UTF8_STRING first and STRING
\* second; a reply with no property, or with data of a type that is neither
\* INCR nor the requested target, moves on to the next format; when both
\* formats fail exactly one FormatUnavailable error is reported, null is
\* returned and the cached string of that selection is null.
C20_FormatsTriedInOrder ==
    ReadAsNonOwner =>
        /\ selOut.asked \in {<<"UTF8_STRING">>, <<"UTF8_STRING", "STRING">>}
        /\ Len(selOut.replies) = Len(selOut.asked)
        /\ Len(selOut.asked) = 2 <=> selOut.replies[1] \in FailedReplies
        /\ IF \A i \in DOMAIN selOut.replies : selOut.replies[i] \in FailedReplies
           THEN /\ selOut.error = FormatUnavailable /\ selOut.errors = 1
                /\ selOut.result.null
                /\ CachedString.null
           ELSE /\ selOut.error = NoError /\ selOut.errors = 0
                /\ ~selOut.result.null
                /\ CachedString = selOut.result

\* the owner refused UTF8_STRING and answered STRING with data of another type
C20_Witness ==
    /\ ReadAsNonOwner /\ selOut.owner = "other"
    /\ selOut.asked = <<"UTF8_STRING", "STRING">>
    /\ selOut.replies = <<"refused", "mismatch">>
    /\ selOut.error = FormatUnavailable /\ selOut.result.null

\* ---------------------------------------------------------------------
\* Claims about the errors of EGL initialisation and context creation
\* ---------------------------------------------------------------------
\* operations of _glfwInitEGL, _glfwChooseVisualEGL and _glfwCreateContextEGL,
\* the last two with the chooseEGLConfig call they make
EglSetupOps == {"init", "chooseVisual", "createContext"}

\* C21: every failing path of _glfwInitEGL, chooseEGLConfig,
\* _glfwChooseVisualEGL and _glfwCreateContextEGL reports exactly one error
\* to the error sink and returns false; every successful path reports no
\* error and returns true.
C21_OneErrorPerFailure ==
    lifeOut.op \in EglSetupOps =>
        IF lifeOut.ok
        THEN lifeOut.errors = <<>>
        ELSE /\ Len(lifeOut.errors) = 1
             /\ lifeOut.errors[1] \in {ApiUnavailable, FormatUnavailable, PlatformError,
                                       VersionUnavailable}

\* ---------------------------------------------------------------------
\* Claims about events for destroyed windows
\* ---------------------------------------------------------------------
\* the step processes an event addressed to a handle that belongs to no
\* live window
EventForDeadHandle == lifeOut'.op = "event" /\ lifeLive[lifeOut'.handle] = "none"

\* C22: after _glfwDestroyWindowX11(w) returned, an event addressed to the
\* former handle of w (a handle no live window has) produces no
\* application notification and changes no window state.
C22_EventsOfDestroyedWindowDropped ==
    [][EventForDeadHandle =>
           /\ ~lifeOut'.notified
           /\ lifeOut'.window = "none"
           /\ lifeWin' = lifeWin
           /\ xContext' = xContext]_vars

\* an event arrived for the former handle of a destroyed window while the
\* other window was live
C22_Witness ==
    /\ lifeOut.op = "event" /\ lifeOut.handle = 1 /\ ~lifeOut.notified
    /\ lifeWin["w1"].state = "destroyed" /\ lifeWin["w1"].had = 1
    /\ lifeWin["w2"].state = "native" /\ lifeWin["w2"].handle = 2

\* ---------------------------------------------------------------------
\* C23: every SelectionRequest event received is answered with exactly one
\* SelectionNotify sent to the requestor, carrying the request's selection,
\* target and time; its property is None when the request has no
\* destination property or names an unsupported target, and the requested
\* property otherwise.
\* ---------------------------------------------------------------------
SupportedRequestTargets == {"TARGETS", "MULTIPLE", "SAVE_TARGETS", "UTF8_STRING", "STRING"}

C23_EveryRequestAnsweredOnce ==
    selReply.op = "request" =>
        /\ Len(selReply.sent) = 1
        /\ LET e == selReply.sent[1]
               r == selReply.request
           IN /\ e.type = "SelectionNotify"
              /\ e.to = r.requestor
              /\ e.selection = r.selection
              /\ e.target = r.target
              /\ e.time = r.time
              /\ e.property = IF r.property = "None" \/ r.target \notin SupportedRequestTargets
                              THEN "None" ELSE r.property


\* ---------------------------------------------------------------------
\* C24: with an input-method context attached, a KeyPress whose server
\* timestamp is newer than the timestamp recorded for that keycode is
\* reported as a key press, also when the 32-bit server timestamp wrapped
\* around zero between the two presses; only presses whose timestamp is
\* equal to or older than the recorded one are suppressed.  (Stated for the
\* keycodes of real keys; newer is the serial comparison of 32-bit server
\* timestamps, scaled to TimeBits.)
\* ---------------------------------------------------------------------
ServerNewer(time, recorded) ==
    LET d == (time - recorded + ServerTimeMod) % ServerTimeMod
    IN d > 0 /\ d < HalfRange

NewerPressTaken ==
    /\ xq # <<>>
    /\ xq' = Tail(xq)
    /\ Head(xq).type = "KeyPress"
    /\ Head(xq).keycode # 0
    /\ keyCfg.ic[Head(xq).window]
    /\ ServerNewer(Head(xq).time, keyPressTimes[Head(xq).window][Head(xq).keycode])

C24_NewerPressReported ==
    [][NewerPressTaken => keyOut'.input = <<"press">>]_vars


\* ---------------------------------------------------------------------
\* Claims about cursor motion
\* ---------------------------------------------------------------------
\* a step that is a call of _glfwPollEventsX11
PollStep == ptrOut'.n # ptrOut.n

\* the poll issued at most one warp, after the events it processed, and only
\* for a last observed position that is not the centre
OneWarpAfterEvents(out) ==
    /\ Len(out.warps) <= 1
    /\ out.warps # <<>> =>
           /\ out.last # Centre
           /\ out.warps = <<Centre>>
           /\ out.trace[Len(out.trace)] = "XWarpPointer"
           /\ \A i \in 1..(Len(out.trace) - 1) : out.trace[i] = "processEvent"

\* the reports of GLFW's own warps emitted nothing
EchoesSilent(out) ==
    \A i \in DOMAIN out.events : out.events[i].cause = "echo" => out.events[i].emitted = <<>>

\* the poll before warped and the user has not moved the pointer since
FollowsWarpWithoutMotion ==
    /\ ptrOut.op = "poll"
    /\ ptrOut.warps # <<>>
    /\ \A i \in DOMAIN ptrX.wire : ptrX.wire[i].cause # "user"

EchoProcessed(out) == \E i \in DOMAIN out.events : out.events[i].cause = "echo"

\* C25 as stated: each poll issues at most one recentring warp, after all
\* queued events were processed and only if the last observed cursor position
\* differs from the window centre; the warp's own echo MotionNotify emits no
\* cursor-position notification, and a following poll with no user motion
\* issues no warp.
C25_Original ==
    [][PollStep =>
          /\ OneWarpAfterEvents(ptrOut')
          /\ EchoesSilent(ptrOut')
          /\ (FollowsWarpWithoutMotion => ptrOut'.warps = <<>>)]_vars

\* C25 (amended): as stated, where the following poll that issues no warp is
\* one that processes the warp's echo; a poll made before the echo has
\* arrived warps again.
C25_RecentringSettles ==
    [][PollStep =>
          /\ OneWarpAfterEvents(ptrOut')
          /\ EchoesSilent(ptrOut')
          /\ (FollowsWarpWithoutMotion /\ EchoProcessed(ptrOut') => ptrOut'.warps = <<>>)]_vars

\* a poll that took the echo of the warp of the poll before it: the echo
\* emitted nothing and no new warp was issued
C25_Witness ==
    /\ ptrOut.op = "poll"
    /\ ptrCfg.capturing
    /\ ptrX.moves > 0
    /\ Len(ptrOut.events) = 1
    /\ ptrOut.events[1].cause = "echo"
    /\ ptrOut.events[1].last # Centre
    /\ ptrOut.events[1].emitted = <<>>
    /\ ptrOut.warps = <<>>


\* C26: a MotionNotify emits a cursor-position notification if and only if
\* its position differs from the window's last application-issued warp
\* position, except that in disabled-cursor mode none is emitted when the
\* window is not the capturing window or raw motion is enabled; in
\* disabled-cursor mode the emitted position is the virtual position plus
\* (reported position - last observed position), otherwise it is the
\* reported absolute position.
C26_MotionEmitsUnlessWarpEcho ==
    \A i \in DOMAIN ptrOut.events :
        LET e == ptrOut.events[i]
            disabled == ptrCfg.cursorMode = "DISABLED"
            silenced == disabled /\ (~ptrCfg.capturing \/ ptrCfg.rawMouseMotion)
        IN /\ (e.emitted # <<>>) <=> (e.pos # e.warp /\ ~silenced)
           /\ e.emitted # <<>> =>
                  e.emitted = IF disabled
                              THEN <<<<e.virtual[1] + e.pos[1] - e.last[1],
                                       e.virtual[2] + e.pos[2] - e.last[2]>>>>
                              ELSE <<e.pos>>

\* a user motion of the capturing window that moved the virtual position on
\* from where an earlier motion had left it
C26_Witness ==
    /\ ptrCfg.capturing
    /\ ~ptrCfg.rawMouseMotion
    /\ \E i \in DOMAIN ptrOut.events :
           /\ ptrOut.events[i].cause = "user"
           /\ ptrOut.events[i].virtual # <<0, 0>>
           /\ ptrOut.events[i].emitted # <<>>
           /\ ptrOut.events[i].emitted # <<ptrOut.events[i].pos>>
           /\ ptrOut.events[i].pos[1] = ptrOut.events[i].warp[1]


\* ---------------------------------------------------------------------
\* Claims about button, client-message and focus events and about full
\* screen windows
\* ---------------------------------------------------------------------
\* the application index the claim gives a native button that is no scroll button
ClaimedIndex(b) ==
    CASE b = 1 -> GLFW_MOUSE_BUTTON_LEFT
      [] b = 2 -> GLFW_MOUSE_BUTTON_MIDDLE
      [] b = 3 -> GLFW_MOUSE_BUTTON_RIGHT
      [] OTHER -> b - 5

NonScrollButtons == (1..MaxButton) \ (4..7)

\* C27: native buttons 1, 2, 3 map to left, middle, right; buttons 4-7 emit
\* exactly one scroll notification of magnitude 1 on press and nothing on
\* release, and never a mouse-button notification; a button b > 7 maps to
\* application index b - 5 on both press and release, so distinct non-scroll
\* native buttons map to distinct application indices with no gap.
C27_ButtonsMapWithoutGap ==
    /\ inpOut.op = "button" =>
           LET b == inpOut.button
           IN IF b \in 4..7
              THEN /\ inpOut.clicks = <<>>
                   /\ IF inpOut.action = "press"
                      THEN /\ Len(inpOut.scrolls) = 1
                           /\ inpOut.scrolls[1] \in {<<0, 1>>, <<0, -1>>, <<1, 0>>, <<-1, 0>>}
                      ELSE inpOut.scrolls = <<>>
              ELSE /\ inpOut.clicks = <<Click(ClaimedIndex(b), inpOut.action)>>
                   /\ inpOut.scrolls = <<>>
    /\ \A b, c \in NonScrollButtons : ClaimedIndex(b) = ClaimedIndex(c) => b = c
    /\ {ClaimedIndex(b) : b \in NonScrollButtons} = 0..(Cardinality(NonScrollButtons) - 1)

C27_Witness ==
    /\ inpOut.op = "button"
    /\ inpOut.button = 8
    /\ inpOut.action = "release"
    /\ inpOut.clicks = <<Click(3, "release")>>

IsProtocolMessage(protocol) ==
    /\ inpOut.op = "client"
    /\ inpOut.event.message_type = "WM_PROTOCOLS"
    /\ inpOut.event.protocol = protocol

\* C28 as stated: a WM_PROTOCOLS client message carrying _NET_WM_PING is
\* answered by sending the received message to the root window unmodified,
\* and produces no application notification; a WM_DELETE_WINDOW message
\* produces exactly one close-request notification and no reply.
C28_Original ==
    /\ IsProtocolMessage("NET_WM_PING") =>
           /\ inpOut.sent = <<[to |-> "root", event |-> inpOut.event]>>
           /\ inpOut.closes = 0
    /\ IsProtocolMessage("WM_DELETE_WINDOW") =>
           /\ inpOut.closes = 1
           /\ inpOut.sent = <<>>

\* C28 (amended): for a message the input method did not filter, the ping is
\* answered by sending the received message to the root window with its
\* window field set to the root window and nothing else changed, with no
\* application notification, and the delete message produces exactly one
\* close request and no reply; a filtered message produces neither.
C28_PingEchoedDeleteNotified ==
    /\ IsProtocolMessage("NET_WM_PING") /\ ~inpOut.event.filtered =>
           /\ inpOut.sent = <<[to |-> "root",
                               event |-> [inpOut.event EXCEPT !.window = "root"]]>>
           /\ inpOut.closes = 0
    /\ IsProtocolMessage("WM_DELETE_WINDOW") /\ ~inpOut.event.filtered =>
           /\ inpOut.closes = 1
           /\ inpOut.sent = <<>>
    /\ inpOut.op = "client" /\ inpOut.event.filtered =>
           /\ inpOut.closes = 0
           /\ inpOut.sent = <<>>

C28_Witness ==
    /\ IsProtocolMessage("NET_WM_PING")
    /\ ~inpOut.event.filtered
    /\ inpOut.event.timestamp = 9
    /\ Len(inpOut.sent) = 1
    /\ inpOut.sent[1].event.timestamp = 9
    /\ inpOut.sent[1].event.window = "root"

\* a FocusOut not caused by a grab or ungrab, on a monitor-attached window
\* with auto-iconify
AutoIconifyFocusOut ==
    /\ inpOut.op = "focusOut"
    /\ inpOut.mode \notin {"NotifyGrab", "NotifyUngrab"}
    /\ inpOut.monitor # Null
    /\ inpCfg.autoIconify

\* name comes before the focus notification in the calls made
CalledBeforeFocus(name) ==
    \E i, j \in DOMAIN inpOut.order :
        /\ i < j
        /\ inpOut.order[i] = name
        /\ inpOut.order[j] = "_glfwInputWindowFocus"

\* C29 as stated: a FocusOut that is not caused by a grab/ungrab, received by
\* a monitor-attached window with auto-iconify enabled, iconifies that window
\* (an iconify request is issued) before the focus-lost notification is
\* emitted.
C29_Original ==
    AutoIconifyFocusOut =>
        /\ inpOut.native = <<"XIconifyWindow">>
        /\ CalledBeforeFocus("XIconifyWindow")

\* C29 (amended): as stated for a window that is not override-redirect; for
\* an override-redirect window PlatformError is reported before the
\* focus-lost notification and no iconify request is issued.
C29_FocusOutIconifies ==
    AutoIconifyFocusOut =>
        IF inpOut.overrideRedirect
        THEN /\ inpOut.native = <<>>
             /\ inpOut.errors = <<PlatformError>>
             /\ CalledBeforeFocus("_glfwInputError")
        ELSE /\ inpOut.native = <<"XIconifyWindow">>
             /\ inpOut.errors = <<>>
             /\ CalledBeforeFocus("XIconifyWindow")

C29_Witness ==
    /\ AutoIconifyFocusOut
    /\ ~inpOut.overrideRedirect
    /\ inpCfg.cursorMode = "DISABLED"
    /\ inpOut.order = <<"enableCursor", "XIconifyWindow", "_glfwInputWindowFocus">>
    /\ inpWin.state = "iconic"

\* C30: a window's override-redirect flag is true only while the window is
\* monitor-attached and EWMH fullscreen state is unsupported, and it is
\* cleared when the window leaves fullscreen; while it is true, iconify and
\* restore report PlatformError and issue no native iconify or map request.
C30_OverrideRedirectOnlyFullscreenWithoutEwmh ==
    /\ inpWin.overrideRedirect => (inpWin.monitor # Null /\ ~inpCfg.ewmh)
    /\ (inpOut.op = "setMonitor" /\ inpOut.monitor = Null) => ~inpWin.overrideRedirect
    /\ (inpOut.op \in {"iconify", "restore"} /\ inpOut.overrideRedirect) =>
           /\ inpOut.errors = <<PlatformError>>
           /\ inpOut.native = <<>>

C30_Witness ==
    /\ inpOut.op = "restore"
    /\ inpWin.overrideRedirect
    /\ inpWin.monitor = "m2"
    /\ inpOut.errors = <<PlatformError>>
    /\ inpOut.native = <<>>


\* ---------------------------------------------------------------------
\* Claims about the order of window destruction
\* ---------------------------------------------------------------------
\* the order the claim gives the steps of a destruction
DestroyOrder ==
    <<"releaseMonitor", "XDestroyIC", "context.destroy", "eglDestroySurface",
      "eglDestroyContext", "XDeleteContext", "XUnmapWindow", "XDestroyWindow",
      "XFreeColormap">>

\* the place of a step in that order
OrderIndex(step) == CHOOSE i \in DOMAIN DestroyOrder : DestroyOrder[i] = step

StepBefore(steps, a, b) ==
    \E i, j \in DOMAIN steps : i < j /\ steps[i] = a /\ steps[j] = b

\* C31: window destruction performs its steps in this order: monitor release,
\* input-method context destruction, rendering-context destroy hook, removal
\* from the reverse-lookup table, unmap and destroy of the native window,
\* colormap release; in particular the context's surface is destroyed before
\* the native window it draws to, and after destruction the window's handle,
\* colormap and input context fields are null.
C31_DestroyOrder ==
    (lifeOut.op = "destroyWindow") =>
        /\ \A i, j \in DOMAIN lifeOut.steps :
               i < j => OrderIndex(lifeOut.steps[i]) < OrderIndex(lifeOut.steps[j])
        /\ (lifeOut.hadSurface /\ StepBefore(lifeOut.steps, "XUnmapWindow", "XDestroyWindow")) =>
               StepBefore(lifeOut.steps, "eglDestroySurface", "XDestroyWindow")
        /\ lifeWin[lifeOut.window].handle = 0
        /\ lifeOut.after = [handle |-> 0, colormap |-> FALSE, ic |-> FALSE]

\* ---------------------------------------------------------------------
\* C32: after every return of _glfwInitEGL or _glfwTerminateEGL, the EGL
\* library handle is non-null if and only if the EGL display is non-null; a
\* failed init leaves both null, so that a later init starts from scratch
\* (as the first init does, it returns), and an init while the library is
\* loaded returns true without loading or querying anything.
\* ---------------------------------------------------------------------
C32_HandleAndDisplayTogether ==
    [][/\ (lifeOut'.op \in {"init", "terminate"} /\ ~lifeOut'.died) =>
              (eglLib'.handle <=> eglLib'.display)
       /\ (lifeOut'.op = "init" /\ ~lifeOut'.ok /\ ~lifeOut'.died) =>
              (~eglLib'.handle /\ ~eglLib'.display)
       /\ (lifeOut'.op = "init" /\ ~eglLib.handle) => ~lifeOut'.died
       /\ (lifeOut'.op = "init" /\ eglLib.handle) =>
              (lifeOut'.ok /\ lifeOut'.calls = <<>> /\ eglLib' = eglLib)]_vars

\* ---------------------------------------------------------------------
\* C33: on X11, when the EGL implementation is ANGLE and its configurations
\* carry no X11 native visual id (id 0), _glfwChooseVisualEGL succeeds and
\* returns the display's default visual and depth.
\* ---------------------------------------------------------------------
NoVisualIds(configs) ==
    /\ Len(configs) > 0
    /\ \A i \in DOMAIN configs : configs[i].visualid = 0

C33_AngleGetsDefaultVisual ==
    (/\ lifeOut.op = "chooseVisual"
     /\ lifePlatform = "X11"
     /\ lifeOut.angle
     /\ NoVisualIds(lifeOut.configs))
        => (lifeOut.ok /\ lifeOut.visual = "default")


\* ---------------------------------------------------------------------
\* C34: whenever configuration selection succeeds, the returned configuration
\* is one of the driver-reported configurations and satisfies every filter:
\* RGB colour-buffer type, window-capable surface type (pbuffer-capable on the
\* null platform), a non-zero native visual id on X11, and a renderable type
\* that includes the requested API family.
\* ---------------------------------------------------------------------
RequestedFamily(in) ==
    IF in.client = "OpenGL" THEN "GL"
    ELSE IF in.major = 1 THEN "ES" ELSE "ES2"

PassesEveryFilter(in, n) ==
    /\ n.cbt = "RGB"
    /\ IF in.platform = "Null" THEN "PBUFFER" \in n.surface ELSE "WINDOW" \in n.surface
    /\ in.platform = "X11" => n.visualid # 0
    /\ RequestedFamily(in) \in n.renderable

C34_SelectedConfigPassesFilters ==
    (EglCalled /\ eglOut.ok)
        => /\ eglOut.result \in 1..Len(eglIn.configs)
           /\ PassesEveryFilter(eglIn, eglIn.configs[eglOut.result])

\* a selection on the null platform that succeeded although the driver also
\* offers a window-only configuration and one without a visual id
C34_Witness ==
    /\ EglCalled
    /\ eglOut.ok
    /\ eglIn.platform = "Null"
    /\ eglOut.result > 1
    /\ \E i \in DOMAIN eglIn.configs : "PBUFFER" \notin eglIn.configs[i].surface
    /\ ~PassesEveryFilter(eglIn, eglIn.configs[1])


\* ---------------------------------------------------------------------
\* C35: whenever a SelectionRequest for a data target (UTF8_STRING, STRING,
\* or a MULTIPLE pair naming one of them) is served, the cached string of the
\* requested selection is non-null, in every interleaving of set-string,
\* get-string as non-owner, external ownership changes and delivery of
\* already queued requests.
\* ---------------------------------------------------------------------
DataTargets == {"UTF8_STRING", "STRING"}

IsDataRequest(r) ==
    \/ r.target \in DataTargets
    \/ /\ r.target = "MULTIPLE"
       /\ \E i \in DOMAIN r.pairs : r.pairs[i].target \in DataTargets

DataRequestServed ==
    /\ selReq # NoRequest
    /\ selReq' = NoRequest
    /\ selReply'.op = "request"
    /\ IsDataRequest(selReq)

C35_ServedStringNonNull ==
    [][DataRequestServed => ~SelectionStringOf(selReq.selection, selString).null]_vars


\* ---------------------------------------------------------------------
\* C36: whenever the global disabled-cursor window is non-null it refers to a
\* live (not destroyed) window whose cursor mode is disabled, in every
\* interleaving of cursor-mode changes, focus-in/focus-out events (including
\* ignored grab/ungrab ones and focus changes not yet delivered as events)
\* and window destruction.
\* ---------------------------------------------------------------------
C36_DisabledCursorWindowIsDisabled ==
    disabledCursorWindow # Null =>
        /\ curLive[disabledCursorWindow]
        /\ curMode[disabledCursorWindow] = "DISABLED"


\* ---------------------------------------------------------------------
\* C37: after any sequence of window creation with a monitor, set-monitor,
\* set-size, iconify/restore property notifications and window destruction
\* (several windows targeting the same monitor included), the screen-saver
\* counter is never negative and equals the number of monitors that
\* currently have an occupying window; the screen saver is disabled exactly
\* while the counter is positive.
\* ---------------------------------------------------------------------
OccupiedMonitors ==
    {m \in Monitors : mon.window[m] # Null /\ winLive[mon.window[m]] = "live"}

C37_SaverCountIsOccupiedMonitors ==
    /\ mon.count >= 0
    /\ mon.count = Cardinality(OccupiedMonitors)
    /\ \A m \in Monitors : mon.window[m] # Null => m \in OccupiedMonitors
    /\ (mon.server = "off") <=> (mon.count > 0)

\* a window was destroyed whose monitor another window had taken over, and
\* that window still occupies it
C37_Witness ==
    /\ winOut.event = "destroy"
    /\ winOut.monitor # Null
    /\ mon.window[winOut.monitor] \notin {Null, winOut.window}
    /\ winLive[mon.window[winOut.monitor]] = "live"
    /\ mon.count = 1


\* ---------------------------------------------------------------------
\* C38: in every reachable state the negotiated drag-and-drop format is
\* either unset or the URI-list type, and it is set only if the session's
\* protocol version is at most 5; each XdndEnter (that reaches its handler)
\* first resets source, version and format, so a format negotiated in an
\* earlier session never survives into a new one.
\* ---------------------------------------------------------------------
SignedVersion(m) == IF m.versionByte >= 128 THEN m.versionByte - 256 ELSE m.versionByte

C38_FormatOfThisSessionOnly ==
    /\ [](/\ xdnd.format \in {NoneAtom, TextUriList}
          /\ xdnd.format # NoneAtom => xdnd.version <= 5)
    /\ [][dndOut'.event = "enter" =>
            /\ xdnd'.source = dndLastEnter'.source
            /\ xdnd'.version = SignedVersion(dndLastEnter')
            /\ xdnd'.format # NoneAtom =>
                   (OffersUriList(dndLastEnter') /\ xdnd'.version <= 5)]_vars

\* an XdndEnter of a source that offers no URI list, or speaks too new a
\* version, arrived when a format was negotiated, and the format is unset
C38_Witness ==
    /\ dndOut.event = "enter"
    /\ dndOut.replaced = TextUriList
    /\ xdnd.format = NoneAtom
    /\ xdnd.version > 5

\* ---------------------------------------------------------------------
\* C40: for a drop on protocol version >= 2, the XdndFinished message sent
\* after the SelectionNotify has its accepted flag (bit 0 of data word 1) set
\* if and only if drop data was received (non-empty property), for every
\* length of the received data; exactly one drop notification is emitted
\* when data was received and none otherwise.
\* ---------------------------------------------------------------------
C40_FinishedFlagTellsDataReceived ==
    (dndOut.event = "selection" /\ xdnd.version >= 2)
        => /\ dndOut.sent = "XdndFinished"
           /\ (dndOut.accepted % 2 = 1) <=> (dndOut.received > 0)
           /\ dndOut.drops = (IF dndOut.received > 0 THEN 1 ELSE 0)


\* ---------------------------------------------------------------------
\* C39: a module is always closed, and its symbols resolved, by the same
\* loader (custom callbacks or default platform loader) that opened it, in
\* every sequence of glfwInitModuleLoader calls interleaved with module
\* open, resolve and close operations.
\* ---------------------------------------------------------------------
CloseOrResolveStep ==
    /\ modOpenedBy.open
    /\ loaderArg' = NoLoaderCall
    /\ loaderRoute'.op \in {"close", "resolve"}

C39_ClosedAndResolvedByOpener ==
    [][CloseOrResolveStep => modOpenedBy.by = moduleLoader]_vars


\* ---------------------------------------------------------------------
\* Specifications
\* ---------------------------------------------------------------------
\* the module loader hook alone
InitLoaderSpec == LoaderInit /\ EglIdle /\ DndIdle /\ WinIdle /\ KeyIdle /\ SelIdle /\ LifeIdle /\ WakeIdle /\ ReqIdle /\ PtrIdle /\ InpIdle /\ CurIdle

SpecLoader == InitLoaderSpec /\ [][LoaderNext]_vars

\* configuration selection applied to every bounded input
InitEglSpec == EglInit /\ LoaderIdle /\ DndIdle /\ WinIdle /\ KeyIdle /\ SelIdle /\ LifeIdle /\ WakeIdle /\ ReqIdle /\ PtrIdle /\ InpIdle /\ CurIdle

SpecEgl == InitEglSpec /\ [][EglNext]_vars

\* the drag-and-drop messages in every order
InitDndSpec == DndInit /\ LoaderIdle /\ EglIdle /\ WinIdle /\ KeyIdle /\ SelIdle /\ LifeIdle /\ WakeIdle /\ ReqIdle /\ PtrIdle /\ InpIdle /\ CurIdle

SpecDnd == InitDndSpec /\ [][DndNext]_vars

\* window operations and property notifications in every order
InitWinSpec == WinInit /\ LoaderIdle /\ EglIdle /\ DndIdle /\ KeyIdle /\ SelIdle /\ LifeIdle /\ WakeIdle /\ ReqIdle /\ PtrIdle /\ InpIdle /\ CurIdle

SpecWin == InitWinSpec /\ [][WinNext]_vars

\* key events only
InitKeySpec == KeyInit /\ LoaderIdle /\ EglIdle /\ DndIdle /\ WinIdle /\ SelIdle /\ LifeIdle /\ WakeIdle /\ ReqIdle /\ PtrIdle /\ InpIdle /\ CurIdle

SpecKeys == InitKeySpec /\ [][KeyNext]_vars

\* the EGL library, the contexts of the windows and their destruction in
\* every order
InitLifeSpec == LifeInit /\ LoaderIdle /\ EglIdle /\ DndIdle /\ WinIdle /\ KeyIdle /\ SelIdle /\ WakeIdle /\ ReqIdle /\ PtrIdle /\ InpIdle /\ CurIdle
SpecLife == InitLifeSpec /\ [][LifeNext]_vars

\* window creations, destructions and window events in every order, on X11
InitTableSpec == LifeIdle /\ LoaderIdle /\ EglIdle /\ DndIdle /\ WinIdle /\ KeyIdle /\ SelIdle /\ WakeIdle /\ ReqIdle /\ PtrIdle /\ InpIdle /\ CurIdle
SpecTable == InitTableSpec /\ [][TableNext]_vars

InitWakeSpec == WakeInit /\ LoaderIdle /\ EglIdle /\ DndIdle /\ WinIdle /\ KeyIdle /\ SelIdle /\ LifeIdle /\ ReqIdle /\ PtrIdle /\ InpIdle /\ CurIdle
SpecWake == InitWakeSpec /\ [][WakeNext]_vars /\ WakeFairness

\* selection operations and the owner's replies in every order
InitSelSpec == SelInit /\ LoaderIdle /\ EglIdle /\ DndIdle /\ WinIdle /\ KeyIdle /\ LifeIdle /\ WakeIdle /\ ReqIdle /\ PtrIdle /\ InpIdle /\ CurIdle

SpecSel == InitSelSpec /\ [][SelNext]_vars

\* the reading thread keeps running: getSelectionString takes its next step
\* whenever it can; nothing is assumed of the selection owner
SelFairness ==
    /\ WF_vars(GetBlock)
    /\ WF_vars(GetOnSelectionNotify)
    /\ WF_vars(GetOnPropertyNewValue)

SpecSelLive == InitSelSpec /\ [][SelNext]_vars /\ SelFairness

\* selection requests from other clients, with the selection operations
InitReqSpec == SelInit /\ ReqIdle /\ LoaderIdle /\ EglIdle /\ DndIdle /\ WinIdle /\ KeyIdle /\ LifeIdle /\ WakeIdle /\ PtrIdle /\ InpIdle /\ CurIdle
SpecReq == InitReqSpec /\ [][ReqNext]_vars

\* pointer motion and polls in every order
InitPtrSpec == PtrInit /\ LoaderIdle /\ EglIdle /\ DndIdle /\ WinIdle /\ KeyIdle /\ SelIdle /\ LifeIdle /\ WakeIdle /\ ReqIdle /\ InpIdle /\ CurIdle
SpecPtr == InitPtrSpec /\ [][PtrNext]_vars

\* input events and full screen changes of one window in every order
InitInpSpec == InpInit /\ LoaderIdle /\ EglIdle /\ DndIdle /\ WinIdle /\ KeyIdle /\ SelIdle /\ LifeIdle /\ WakeIdle /\ ReqIdle /\ PtrIdle /\ CurIdle
SpecInp == InitInpSpec /\ [][InpNext]_vars

\* the cursor-mode calls, the focus changes of the server, their events and
\* the destruction of windows in every order
InitCurSpec == CurInit /\ LoaderIdle /\ EglIdle /\ DndIdle /\ WinIdle /\ KeyIdle /\ SelIdle /\ LifeIdle /\ WakeIdle /\ ReqIdle /\ PtrIdle /\ InpIdle

SpecCur == InitCurSpec /\ [][CurNext]_vars

====
